---------------------------- MODULE Spec2Model ----------------------------
(***************************************************************************)
(* A model of the WHOIS query client: server selection (servers.rs), the   *)
(* WHOIS-COLOR capability negotiation and query builder (protocol.rs) and  *)
(* the query orchestrator with IANA referral and RADB fallback (query.rs). *)
(*                                                                         *)
(* Text is modelled as a sequence of one-character strings, so that the    *)
(* string operations of the code (trim, lines, split_whitespace,           *)
(* to_uppercase, contains, ...) are computed and not assumed.              *)
(***************************************************************************)
EXTENDS Integers, Sequences, FiniteSets, TLC

(***************************************************************************)
(* Option<T>: None is the empty sequence, Some(x) a one-element sequence.  *)
(***************************************************************************)
None == <<>>

Some(x) == <<x>>

IsSome(o) == o # <<>>

Unwrap(o) == o[1]

(***************************************************************************)
(* Text primitives (Rust str methods). The characters are those of ASCII   *)
(* and, for the texts a server sends, one letter outside ASCII, written    *)
(* as a name of several letters: it is one character of two bytes.         *)
(***************************************************************************)
WhiteSpace == {" ", "\t", "\r", "\n"}

\* U+00E9 and U+00C9, LATIN SMALL and CAPITAL LETTER E WITH ACUTE
E_ACUTE == "e-acute"

E_ACUTE_UPPER == "E-acute"

\* char::len_utf8
len_utf8(c) == IF c \in {E_ACUTE, E_ACUTE_UPPER} THEN 2 ELSE 1

\* str::len: the length of the text in bytes
RECURSIVE len(_)
len(s) == IF s = <<>> THEN 0 ELSE len_utf8(Head(s)) + len(Tail(s))

LowerAlpha ==
    <<"a", "b", "c", "d", "e", "f", "g", "h", "i", "j", "k", "l", "m",
      "n", "o", "p", "q", "r", "s", "t", "u", "v", "w", "x", "y", "z">>

UpperAlpha ==
    <<"A", "B", "C", "D", "E", "F", "G", "H", "I", "J", "K", "L", "M",
      "N", "O", "P", "Q", "R", "S", "T", "U", "V", "W", "X", "Y", "Z">>

\* char::to_uppercase on one character
UpperChar(c) ==
    IF \E i \in 1..26 : LowerAlpha[i] = c
    THEN UpperAlpha[CHOOSE i \in 1..26 : LowerAlpha[i] = c]
    ELSE IF c = E_ACUTE THEN E_ACUTE_UPPER
    ELSE c

\* char::to_lowercase on one character
LowerChar(c) ==
    IF \E i \in 1..26 : UpperAlpha[i] = c
    THEN LowerAlpha[CHOOSE i \in 1..26 : UpperAlpha[i] = c]
    ELSE IF c = E_ACUTE_UPPER THEN E_ACUTE
    ELSE c

\* a plausible slip: the target is compared without case conversion
to_uppercase_unconverted(s) == s

\* str::to_uppercase
to_uppercase(s) == [i \in 1..Len(s) |-> UpperChar(s[i])]

\* str::to_lowercase
to_lowercase(s) == [i \in 1..Len(s) |-> LowerChar(s[i])]

\* str::starts_with
starts_with(s, p) == Len(p) <= Len(s) /\ SubSeq(s, 1, Len(p)) = p

\* str::contains
contains(s, p) ==
    \E i \in 1..(Len(s) - Len(p) + 1) : SubSeq(s, i, i + Len(p) - 1) = p

RECURSIVE trim_start(_)
trim_start(s) ==
    IF s = <<>> THEN <<>>
    ELSE IF Head(s) \in WhiteSpace THEN trim_start(Tail(s))
    ELSE s

RECURSIVE trim_end(_)
trim_end(s) ==
    IF s = <<>> THEN <<>>
    ELSE IF s[Len(s)] \in WhiteSpace THEN trim_end(SubSeq(s, 1, Len(s) - 1))
    ELSE s

\* str::trim
trim(s) == trim_end(trim_start(s))

\* index of the first occurrence of character c in s, 0 when absent
FirstIndex(s, c) ==
    IF \E i \in 1..Len(s) : s[i] = c
    THEN CHOOSE i \in 1..Len(s) : s[i] = c /\ \A j \in 1..(i - 1) : s[j] # c
    ELSE 0

\* str::split(c): the pieces between separators, empty pieces included
RECURSIVE split(_, _)
split(s, c) ==
    LET i == FirstIndex(s, c)
    IN  IF i = 0 THEN <<s>>
        ELSE <<SubSeq(s, 1, i - 1)>> \o split(SubSeq(s, i + 1, Len(s)), c)

StripCr(s) ==
    IF s # <<>> /\ s[Len(s)] = "\r" THEN SubSeq(s, 1, Len(s) - 1) ELSE s

\* str::lines: split at "\n", a "\r" before the "\n" is dropped, and a
\* final empty piece (text ending in "\n", or empty text) is no line
lines(s) ==
    LET parts == split(s, "\n")
        n     == Len(parts)
        term  == [i \in 1..(n - 1) |-> StripCr(parts[i])]
    IN  IF parts[n] = <<>> THEN term ELSE term \o <<parts[n]>>

\* length of the leading run of non-whitespace characters
RECURSIVE TokenLen(_)
TokenLen(s) ==
    IF s = <<>> \/ Head(s) \in WhiteSpace THEN 0 ELSE 1 + TokenLen(Tail(s))

\* str::split_whitespace
RECURSIVE split_whitespace(_)
split_whitespace(s) ==
    LET t == trim_start(s)
        n == TokenLen(t)
    IN  IF t = <<>> THEN <<>>
        ELSE <<SubSeq(t, 1, n)>> \o split_whitespace(SubSeq(t, n + 1, Len(t)))

\* [T]::join(sep)
RECURSIVE join(_, _)
join(ss, sep) ==
    IF ss = <<>> THEN <<>>
    ELSE IF Len(ss) = 1 THEN ss[1]
    ELSE ss[1] \o sep \o join(Tail(ss), sep)

\* Iterator::filter on a sequence of texts, keeping the non-empty ones
RECURSIVE NonEmptyOnly(_)
NonEmptyOnly(ss) ==
    IF ss = <<>> THEN <<>>
    ELSE IF Head(ss) = <<>> THEN NonEmptyOnly(Tail(ss))
    ELSE <<Head(ss)>> \o NonEmptyOnly(Tail(ss))

CRLF == <<"\r", "\n">>

(***************************************************************************)
(* servers.rs: the well-known servers                                      *)
(***************************************************************************)
IANA_WHOIS_SERVER ==
    <<"w", "h", "o", "i", "s", ".", "i", "a", "n", "a", ".", "o", "r", "g">>

DEFAULT_WHOIS_SERVER ==
    <<"w", "h", "o", "i", "s", ".", "r", "i", "p", "e", ".", "n", "e", "t">>

DEFAULT_WHOIS_PORT == 43

DN42_WHOIS_SERVER ==
    <<"l", "a", "n", "t", "i", "a", "n", ".", "p", "u", "b">>

DN42_WHOIS_PORT == 43

BGPTOOLS_WHOIS_SERVER ==
    <<"b", "g", "p", ".", "t", "o", "o", "l", "s">>

BGPTOOLS_WHOIS_PORT == 43

RADB_WHOIS_SERVER ==
    <<"w", "h", "o", "i", "s", ".", "r", "a", "d", "b", ".", "n", "e", "t">>

RADB_WHOIS_PORT == 43

\* the literal of the auto-detection test in select_server
DN42_PREFIX == <<"A", "S", "4", "2", "4", "2", "4">>

WhoisServer(host, port, name) == [host |-> host, port |-> port, name |-> name]

iana == WhoisServer(IANA_WHOIS_SERVER, DEFAULT_WHOIS_PORT, "IANA")

dn42 == WhoisServer(DN42_WHOIS_SERVER, DN42_WHOIS_PORT, "DN42")

bgptools == WhoisServer(BGPTOOLS_WHOIS_SERVER, BGPTOOLS_WHOIS_PORT, "BGP.tools")

radb == WhoisServer(RADB_WHOIS_SERVER, RADB_WHOIS_PORT, "RADB")

custom(host, port) == WhoisServer(host, port, "Custom")

\* WhoisServer::address, kept as the pair the formatted text is made of
address(s) == <<s.host, s.port>>

(***************************************************************************)
(* State                                                                   *)
(***************************************************************************)
VARIABLES
    verbose,                \* the field of WhoisQuery
    stdout,                 \* the diagnostic lines printed so far
    domain,                 \* the lookup target
    use_dn42,               \* --42
    use_bgptools,           \* --bgptools
    explicit_server,        \* Option: --server
    port,                   \* --port
    env_server,             \* Option: the WHOIS_SERVER environment variable
    entry,                  \* which entry point of WhoisQuery is called
    use_server_color,
    enable_markdown,
    enable_images,
    preferred_color_scheme, \* Option
    frame,                  \* the arguments the entry point passes on
    pc,                     \* position in the invocation
    run,                    \* 0 before the call, 1 first run, 2 RADB fallback
    server,                 \* Option: the server select_server returned
    cur,                    \* Option: the server of the current hop
    capabilities,           \* Option: the local of try_enhanced_protocol_query
    log,                    \* the connections opened so far, in order
    result                  \* Option: what the entry point returned

inputs ==
    <<domain, use_dn42, use_bgptools, explicit_server, port, env_server,
      entry, use_server_color, enable_markdown, enable_images,
      preferred_color_scheme>>

vars ==
    <<verbose, stdout, inputs, frame, pc, run, server, cur, capabilities, log,
      result>>

\* a step that prints nothing
Quiet == UNCHANGED <<verbose, stdout>>

\* if self.verbose { println!(..) } for each of the lines
Said(printed) == IF verbose THEN stdout \o printed ELSE stdout

\* ServerSelector::from_env
from_env == env_server

\* a plausible slip: the explicit server is looked at before the mode flags
select_server_explicit_first(dom, dn, bgp, explicit, p) ==
    IF IsSome(explicit) THEN custom(Unwrap(explicit), p)
    ELSE IF dn \/ starts_with(to_uppercase(dom), DN42_PREFIX) THEN dn42
    ELSE IF bgp THEN bgptools
    ELSE IF IsSome(from_env) THEN custom(Unwrap(from_env), p)
    ELSE iana

\* a plausible slip: the root authority is contacted on the port argument
select_server_iana_on_port(dom, dn, bgp, explicit, p) ==
    IF dn \/ starts_with(to_uppercase(dom), DN42_PREFIX) THEN dn42
    ELSE IF bgp THEN bgptools
    ELSE IF IsSome(explicit) THEN custom(Unwrap(explicit), p)
    ELSE IF IsSome(from_env) THEN custom(Unwrap(from_env), p)
    ELSE [iana EXCEPT !.port = p]

\* ServerSelector::select_server
select_server(dom, dn, bgp, explicit, p) ==
    IF dn \/ starts_with(to_uppercase(dom), DN42_PREFIX) THEN dn42
    ELSE IF bgp THEN bgptools
    ELSE IF IsSome(explicit) THEN custom(Unwrap(explicit), p)
    ELSE IF IsSome(from_env) THEN custom(Unwrap(from_env), p)
    ELSE iana

(***************************************************************************)
(* protocol.rs: the WHOIS-COLOR extension protocol                         *)
(***************************************************************************)
CAPABILITY_PROBE ==
    <<"X", "-", "W", "H", "O", "I", "S", "-", "C", "O", "L", "O", "R", "-",
      "P", "R", "O", "B", "E", ":", " ", "v", "1", ".", "1", "\r", "\n">>

COLOR_REQUEST_PREFIX ==
    <<"X", "-", "W", "H", "O", "I", "S", "-", "C", "O", "L", "O", "R", ":",
      " ">>

MARKDOWN_REQUEST_PREFIX ==
    <<"X", "-", "W", "H", "O", "I", "S", "-", "M", "A", "R", "K", "D", "O",
      "W", "N", ":", " ">>

IMAGE_REQUEST_PREFIX ==
    <<"X", "-", "W", "H", "O", "I", "S", "-", "I", "M", "A", "G", "E", "S",
      ":", " ">>

CAPABILITY_RESPONSE_PREFIX ==
    <<"X", "-", "W", "H", "O", "I", "S", "-", "C", "O", "L", "O", "R", "-",
      "S", "U", "P", "P", "O", "R", "T", ":", " ">>

COLOR_APPLIED_MARKER ==
    <<"X", "-", "W", "H", "O", "I", "S", "-", "C", "O", "L", "O", "R", "-",
      "A", "P", "P", "L", "I", "E", "D", ":">>

SCHEMES_KEY ==
    <<"s", "c", "h", "e", "m", "e", "s", "=">>

MARKDOWN_KEY ==
    <<"m", "a", "r", "k", "d", "o", "w", "n", "=">>

IMAGES_KEY ==
    <<"i", "m", "a", "g", "e", "s", "=">>

TRUE_LITERAL ==
    <<"t", "r", "u", "e">>

SCHEME_EQ ==
    <<"s", "c", "h", "e", "m", "e", "=">>

\* the one-character escape (0x1b) that introduces an ANSI sequence
ESC == "ESC"

ANSI_INTRODUCER == <<ESC, "[">>

CAPABILITY_TIMEOUT_MS == 2000

\* ServerCapabilities
ServerCapabilities(color, schemes, version, markdown, images, formats) ==
    [supports_color    |-> color,
     color_schemes     |-> schemes,
     protocol_version  |-> version,
     supports_markdown |-> markdown,
     supports_images   |-> images,
     image_formats     |-> formats]

\* impl Default for ServerCapabilities
default_capabilities ==
    ServerCapabilities(FALSE, <<>>, <<"n", "o", "n", "e">>, FALSE, FALSE, <<>>)

\* str::strip_prefix, as an Option
strip_prefix(s, p) ==
    IF starts_with(s, p) THEN Some(SubSeq(s, Len(p) + 1, Len(s))) ELSE None

\* .split(',').map(|s| s.trim().to_string()).filter(|s| !s.is_empty())
csv_list(s) ==
    LET pieces == split(s, ",")
    IN  NonEmptyOnly([i \in 1..Len(pieces) |-> trim(pieces[i])])

\* a plausible slip: any markdown= token turns Markdown support on
parse_capability_token_markdown_present(caps, part) ==
    LET schemes_part  == strip_prefix(part, SCHEMES_KEY)
        markdown_part == strip_prefix(part, MARKDOWN_KEY)
        images_part   == strip_prefix(part, IMAGES_KEY)
    IN  IF IsSome(schemes_part)
        THEN [caps EXCEPT !.color_schemes = csv_list(Unwrap(schemes_part))]
        ELSE IF IsSome(markdown_part)
        THEN [caps EXCEPT !.supports_markdown = TRUE]
        ELSE IF IsSome(images_part)
        THEN [caps EXCEPT !.supports_images = (Unwrap(images_part) # <<>>),
                          !.image_formats = csv_list(Unwrap(images_part))]
        ELSE caps

\* a plausible slip: a token that is not recognised makes the line count as
\* no support
parse_capability_token_strict(caps, part) ==
    LET schemes_part  == strip_prefix(part, SCHEMES_KEY)
        markdown_part == strip_prefix(part, MARKDOWN_KEY)
        images_part   == strip_prefix(part, IMAGES_KEY)
    IN  IF IsSome(schemes_part)
        THEN [caps EXCEPT !.color_schemes = csv_list(Unwrap(schemes_part))]
        ELSE IF IsSome(markdown_part)
        THEN [caps EXCEPT !.supports_markdown =
                              (Unwrap(markdown_part) = TRUE_LITERAL)]
        ELSE IF IsSome(images_part)
        THEN [caps EXCEPT !.supports_images = (Unwrap(images_part) # <<>>),
                          !.image_formats = csv_list(Unwrap(images_part))]
        ELSE default_capabilities

\* the body of the loop of parse_capability_line, for one token
parse_capability_token(caps, part) ==
    LET schemes_part  == strip_prefix(part, SCHEMES_KEY)
        markdown_part == strip_prefix(part, MARKDOWN_KEY)
        images_part   == strip_prefix(part, IMAGES_KEY)
    IN  IF IsSome(schemes_part)
        THEN [caps EXCEPT !.color_schemes = csv_list(Unwrap(schemes_part))]
        ELSE IF IsSome(markdown_part)
        THEN [caps EXCEPT !.supports_markdown =
                              (Unwrap(markdown_part) = TRUE_LITERAL)]
        ELSE IF IsSome(images_part)
        THEN [caps EXCEPT !.supports_images = (Unwrap(images_part) # <<>>),
                          !.image_formats = csv_list(Unwrap(images_part))]
        ELSE caps

\* the loop of parse_capability_line over parts[1..]
RECURSIVE parse_capability_tokens(_, _)
parse_capability_tokens(caps, parts) ==
    IF parts = <<>> THEN caps
    ELSE parse_capability_tokens(parse_capability_token(caps, Head(parts)),
                                 Tail(parts))

\* WhoisColorProtocol::parse_capability_line
parse_capability_line(capability_data) ==
    LET parts == split_whitespace(capability_data)
    IN  IF parts = <<>> THEN default_capabilities
        ELSE parse_capability_tokens(
                 ServerCapabilities(TRUE, <<>>, parts[1], FALSE, FALSE, <<>>),
                 Tail(parts))

\* WhoisColorProtocol::parse_capability_response
parse_capability_response(response) ==
    LET ls   == lines(response)
        hits == {i \in 1..Len(ls) :
                    starts_with(trim(ls[i]), CAPABILITY_RESPONSE_PREFIX)}
    IN  IF hits = {} THEN default_capabilities
        ELSE LET i    == CHOOSE h \in hits : \A k \in hits : h <= k
                 line == trim(ls[i])
             IN  parse_capability_line(
                     SubSeq(line, Len(CAPABILITY_RESPONSE_PREFIX) + 1, Len(line)))

\* a plausible slip: the preferred scheme is taken without looking it up in
\* the list the server advertised
select_color_scheme_unchecked(caps, preferred_scheme) ==
    IF ~caps.supports_color THEN None
    ELSE IF IsSome(preferred_scheme) THEN preferred_scheme
    ELSE IF caps.color_schemes = <<>> THEN None
    ELSE Some(caps.color_schemes[1])

\* WhoisColorProtocol::select_color_scheme
select_color_scheme(caps, preferred_scheme) ==
    IF ~caps.supports_color THEN None
    ELSE IF IsSome(preferred_scheme)
            /\ \E i \in 1..Len(caps.color_schemes) :
                   caps.color_schemes[i] = Unwrap(preferred_scheme)
    THEN preferred_scheme
    ELSE IF caps.color_schemes = <<>> THEN None
    ELSE Some(caps.color_schemes[1])

\* a plausible slip: the headers follow the preferences alone, whatever the
\* server supports
build_enhanced_query_unnegotiated(q, caps, preferred_scheme, markdown, images) ==
    LET color_header ==
            IF IsSome(preferred_scheme)
            THEN COLOR_REQUEST_PREFIX \o SCHEME_EQ
                     \o Unwrap(preferred_scheme) \o CRLF
            ELSE <<>>
        markdown_header ==
            IF markdown THEN MARKDOWN_REQUEST_PREFIX \o TRUE_LITERAL \o CRLF
            ELSE <<>>
        images_header ==
            IF images /\ caps.image_formats # <<>>
            THEN IMAGE_REQUEST_PREFIX
                     \o join(caps.image_formats, <<",">>) \o CRLF
            ELSE <<>>
    IN  color_header \o markdown_header \o images_header \o q \o CRLF

\* a plausible slip: the images header is written before the Markdown header
build_enhanced_query_images_first(q, caps, preferred_scheme, markdown, images) ==
    LET scheme == select_color_scheme(caps, preferred_scheme)
        color_header ==
            IF caps.supports_color /\ IsSome(scheme)
            THEN COLOR_REQUEST_PREFIX \o SCHEME_EQ \o Unwrap(scheme) \o CRLF
            ELSE <<>>
        markdown_header ==
            IF caps.supports_markdown /\ markdown
            THEN MARKDOWN_REQUEST_PREFIX \o TRUE_LITERAL \o CRLF
            ELSE <<>>
        images_header ==
            IF caps.supports_images /\ images /\ caps.image_formats # <<>>
            THEN IMAGE_REQUEST_PREFIX
                     \o join(caps.image_formats, <<",">>) \o CRLF
            ELSE <<>>
    IN  color_header \o images_header \o markdown_header \o q \o CRLF

\* WhoisColorProtocol::build_enhanced_query
build_enhanced_query(q, caps, preferred_scheme, markdown, images) ==
    LET scheme == select_color_scheme(caps, preferred_scheme)
        color_header ==
            IF caps.supports_color /\ IsSome(scheme)
            THEN COLOR_REQUEST_PREFIX \o <<"s", "c", "h", "e", "m", "e", "=">>
                     \o Unwrap(scheme) \o CRLF
            ELSE <<>>
        markdown_header ==
            IF caps.supports_markdown /\ markdown
            THEN MARKDOWN_REQUEST_PREFIX \o TRUE_LITERAL \o CRLF
            ELSE <<>>
        images_header ==
            IF caps.supports_images /\ images
               /\ caps.image_formats # <<>>
            THEN IMAGE_REQUEST_PREFIX
                     \o join(caps.image_formats, <<",">>) \o CRLF
            ELSE <<>>
        headers == color_header \o markdown_header \o images_header
    IN  IF headers = <<>> THEN q \o CRLF
        ELSE headers \o q \o CRLF

\* the query_string of WhoisColorProtocol::query_with_enhanced_protocol
enhanced_query_string(q, caps, preferred_scheme, markdown, images) ==
    IF caps.supports_color \/ caps.supports_markdown
       \/ caps.supports_images
    THEN build_enhanced_query(q, caps, preferred_scheme,
                              markdown, images)
    ELSE q \o CRLF

\* WhoisColorProtocol::is_server_colored
is_server_colored(response) ==
    contains(response, ANSI_INTRODUCER) \/ contains(response, COLOR_APPLIED_MARKER)

(***************************************************************************)
(* servers.rs: referral extraction; query.rs: the empty-result classifier  *)
(***************************************************************************)
WHOIS_FIELD == <<"w", "h", "o", "i", "s", ":">>

REFER_FIELD == <<"r", "e", "f", "e", "r", ":">>

\* a plausible slip: a field without a value is skipped and the search goes
\* on with the lines after it
extract_whois_server_skip_blank(response) ==
    LET ls   == lines(response)
        hits == {i \in 1..Len(ls) :
                    /\ \/ starts_with(trim(ls[i]), WHOIS_FIELD)
                       \/ starts_with(trim(ls[i]), REFER_FIELD)
                    /\ Len(split_whitespace(trim(ls[i]))) >= 2}
    IN  IF hits = {} THEN None
        ELSE LET i      == CHOOSE h \in hits : \A k \in hits : h <= k
                 tokens == split_whitespace(trim(ls[i]))
             IN  Some(trim(tokens[2]))

\* ServerSelector::extract_whois_server
extract_whois_server(response) ==
    LET ls   == lines(response)
        hits == {i \in 1..Len(ls) :
                    \/ starts_with(trim(ls[i]), WHOIS_FIELD)
                    \/ starts_with(trim(ls[i]), REFER_FIELD)}
    IN  IF hits = {} THEN None
        ELSE LET i      == CHOOSE h \in hits : \A k \in hits : h <= k
                 tokens == split_whitespace(trim(ls[i]))
             IN  IF Len(tokens) < 2 THEN None ELSE Some(trim(tokens[2]))

empty_indicators ==
    <<<<"n", "o", " ", "f", "o", "u", "n", "d">>,
      <<"n", "o", " ", "m", "a", "t", "c", "h">>,
      <<"n", "o", "t", " ", "f", "o", "u", "n", "d">>,
      <<"n", "o", " ", "d", "a", "t", "a", " ", "f", "o", "u", "n", "d">>,
      <<"n", "o", " ", "e", "n", "t", "r", "i", "e", "s", " ", "f", "o", "u", "n", "d">>,
      <<"n", "o", " ", "r", "e", "c", "o", "r", "d", "s", " ", "f", "o", "u", "n", "d">>,
      <<"n", "o", " ", "s", "u", "c", "h", " ", "d", "o", "m", "a", "i", "n">>,
      <<"n", "o", " ", "w", "h", "o", "i", "s", " ", "s", "e", "r", "v", "e", "r", " ", "i", "s", " ", "k", "n", "o", "w", "n">>,
      <<"o", "b", "j", "e", "c", "t", " ", "d", "o", "e", "s", " ", "n", "o", "t", " ", "e", "x", "i", "s", "t">>,
      <<"%", "e", "r", "r", "o", "r", ":", " ", "n", "o", " ", "o", "b", "j", "e", "c", "t", "s", " ", "f", "o", "u", "n", "d">>,
      <<"%", " ", "n", "o", " ", "o", "b", "j", "e", "c", "t", "s", " ", "f", "o", "u", "n", "d">>>>

\* a plausible slip: either threshold alone makes a response short
is_empty_result_short_or(response) ==
    LET r  == trim(response)
        lower == to_lowercase(r)
        ls == lines(r)
        trimmed == [i \in 1..Len(ls) |-> trim(ls[i])]
        content_lines ==
            SelectSeq(trimmed,
                      LAMBDA l : l # <<>> /\ ~starts_with(l, <<"%">>)
                                          /\ ~starts_with(l, <<"#">>))
    IN  \/ r = <<>>
        \/ \E k \in 1..Len(empty_indicators) : contains(lower, empty_indicators[k])
        \/ content_lines = <<>>
        \/ len(r) < 30 \/ len(join(content_lines, <<" ">>)) < 10

\* a plausible slip: only a response that is empty after trimming is empty
is_empty_result_blank_only(response) == trim(response) = <<>>

\* is_empty_result
is_empty_result(response) ==
    LET r  == trim(response)
        lower == to_lowercase(r)
        ls == lines(r)
        trimmed == [i \in 1..Len(ls) |-> trim(ls[i])]
        content_lines ==
            SelectSeq(trimmed,
                      LAMBDA l : l # <<>> /\ ~starts_with(l, <<"%">>)
                                          /\ ~starts_with(l, <<"#">>))
    IN  \/ r = <<>>
        \/ \E k \in 1..Len(empty_indicators) : contains(lower, empty_indicators[k])
        \/ content_lines = <<>>
        \/ len(r) < 30 /\ len(join(content_lines, <<" ">>)) < 10

(***************************************************************************)
(* The inputs of the model: lookup targets, server names, and the texts a  *)
(* server may answer with.                                                 *)
(***************************************************************************)
T_DOMAIN ==
    <<"e", "x", "a", "m", "p", "l", "e", ".", "c", "o", "m">>

T_DN42_LOWER ==
    <<"a", "s", "4", "2", "4", "2", "4", "2", "0", "0", "0", "0">>

T_DN42_UPPER ==
    <<"A", "S", "4", "2", "4", "2", "4", "2", "1", "2", "3", "4">>

T_DN42_MIXED ==
    <<"A", "s", "4", "2", "4", "2", "4">>

T_SHORT ==
    <<"A", "S", "4", "2", "4", "2">>

T_OTHER_AS ==
    <<"A", "S", "1", "5", "1", "6", "9">>

T_INNER ==
    <<"X", "A", "S", "4", "2", "4", "2", "4">>

HOST_ARIN ==
    <<"w", "h", "o", "i", "s", ".", "a", "r", "i", "n", ".", "n", "e", "t">>

HOST_APNIC ==
    <<"w", "h", "o", "i", "s", ".", "a", "p", "n", "i", "c", ".", "n", "e",
      "t">>

SCHEME_MTF ==
    <<"m", "t", "f">>

R_RECORD ==
    <<"d", "o", "m", "a", "i", "n", ":", " ", "e", "x", ".", "c", "o", "m",
      "\n", "s", "o", "u", "r", "c", "e", ":", " ", "R", "I", "P", "E", "\n">>

R_NOMATCH ==
    <<"N", "o", " ", "m", "a", "t", "c", "h", " ", "f", "o", "r", " ", "d",
      "o", "m", "a", "i", "n", ".", "\r", "\n">>

R_EMPTY ==
    <<>>

R_WHOIS ==
    <<"w", "h", "o", "i", "s", ":", " ", " ", " ", "w", "h", "o", "i", "s",
      ".", "e", "x", "a", "m", "p", "l", "e", ".", "n", "e", "t", "\r", "\n">>

R_REFER_RADB ==
    <<"r", "e", "f", "e", "r", ":", " ", "w", "h", "o", "i", "s", ".", "r",
      "a", "d", "b", ".", "n", "e", "t", "\n">>

\* a whois: field without a value, followed by a refer: field with one
R_WHOIS_BLANK ==
    <<"w", "h", "o", "i", "s", ":", "\r", "\n", "r", "e", "f", "e", "r", ":",
      " ", "w", "h", "o", "i", "s", ".", "r", "a", "d", "b", ".", "n", "e",
      "t", "\r", "\n">>

\* a whois: field and a refer: field that name different hosts, in the two
\* orders
R_WHOIS_REFER ==
    <<"w", "h", "o", "i", "s", ":", " ", "w", "h", "o", "i", "s", ".", "e",
      "x", "a", "m", "p", "l", "e", ".", "n", "e", "t", "\r", "\n", "r", "e",
      "f", "e", "r", ":", " ", "w", "h", "o", "i", "s", ".", "r", "a", "d",
      "b", ".", "n", "e", "t", "\r", "\n">>

R_REFER_WHOIS ==
    <<"r", "e", "f", "e", "r", ":", " ", "w", "h", "o", "i", "s", ".", "r",
      "a", "d", "b", ".", "n", "e", "t", "\r", "\n", "w", "h", "o", "i", "s",
      ":", " ", "w", "h", "o", "i", "s", ".", "e", "x", "a", "m", "p", "l",
      "e", ".", "n", "e", "t", "\r", "\n">>

R_COLORED ==
    <<ESC, "[", "3", "2", "m", "d", "o", "m", "a", "i", "n", ":", " ", "e",
      "x", ".", "c", "o", "m", ESC, "[", "0", "m", "\n">>

CAP_V11 ==
    <<"X", "-", "W", "H", "O", "I", "S", "-", "C", "O", "L", "O", "R", "-",
      "S", "U", "P", "P", "O", "R", "T", ":", " ", "v", "1", ".", "1", " ",
      "s", "c", "h", "e", "m", "e", "s", "=", "r", "i", "p", "e", ",", "m",
      "t", "f", " ", "m", "a", "r", "k", "d", "o", "w", "n", "=", "t", "r",
      "u", "e", " ", "i", "m", "a", "g", "e", "s", "=", "p", "n", "g", ",",
      "j", "p", "g", "\r", "\n">>

CAP_V10 ==
    <<"X", "-", "W", "H", "O", "I", "S", "-", "C", "O", "L", "O", "R", "-",
      "S", "U", "P", "P", "O", "R", "T", ":", " ", "v", "1", ".", "0", " ",
      "s", "c", "h", "e", "m", "e", "s", "=", "r", "i", "p", "e", "\r", "\n">>

\* the targets, servers, ports and schemes an invocation is called with
Targets == {T_DOMAIN, T_DN42_LOWER}

ExplicitServers == {None, Some(HOST_ARIN)}

EnvServers == {None, Some(RADB_WHOIS_SERVER), Some(HOST_ARIN)}

Ports == {43, 4343}

Schemes == {None, Some(SCHEME_MTF)}

\* the larger input space server selection alone is explored over
SelTargets ==
    {T_DOMAIN, T_DN42_LOWER, T_DN42_UPPER, T_DN42_MIXED, T_SHORT, T_OTHER_AS,
     T_INNER}

SelExplicitServers == {None, Some(HOST_ARIN), Some(RADB_WHOIS_SERVER)}

SelEnvServers == {None, Some(HOST_APNIC), Some(RADB_WHOIS_SERVER)}

\* what a server may send back before it closes the connection
Responses == {R_RECORD, R_NOMATCH, R_EMPTY, R_WHOIS, R_REFER_RADB, R_COLORED}

\* what the root authority may send back
IanaResponses ==
    Responses \cup {R_WHOIS_BLANK, R_WHOIS_REFER, R_REFER_WHOIS}

\* what a server may send back to the capability probe
ProbeResponses == {CAP_V11, CAP_V10, R_RECORD}

\* the functions of the received text, applied once to each text a server of
\* the model may send; the steps below look the values up
EmptyResult == [r \in Responses |-> is_empty_result(r)]

Referral == [r \in IanaResponses |-> extract_whois_server(r)]

ServerColored == [r \in Responses |-> is_server_colored(r)]

Capabilities == [r \in ProbeResponses \cup {<<>>} |-> parse_capability_response(r)]

(***************************************************************************)
(* Results                                                                 *)
(***************************************************************************)
\* anyhow::Result
Ok(v) == [ok |-> TRUE, value |-> v]

Err(e) == [ok |-> FALSE, error |-> e]

\* the error context: the operation, the step that failed and the address
TransportError(op, stage, s) ==
    [op |-> op, stage |-> stage, host |-> s.host, port |-> s.port]

\* QueryResult::new and QueryResult::new_with_color
QueryResult(response, server_used, server_colored) ==
    [response       |-> response,
     server_used    |-> server_used,
     server_colored |-> server_colored]

\* one connection: who was contacted, what was written, how it ended, what
\* was read, and what the operation returned to its caller
Conn(kind, s, payload, outcome, response, ret, r) ==
    [kind |-> kind, host |-> s.host, port |-> s.port, payload |-> payload,
     outcome |-> outcome, response |-> response, ret |-> ret, run |-> r]

\* the steps of query_direct and of protocol.query_with_enhanced_protocol
\* that fail with `?`
QueryFailures ==
    {"connect", "set_read_timeout", "set_write_timeout", "write", "read"}

\* the steps of probe_capabilities that may fail
ProbeFailures ==
    {"connect", "set_read_timeout", "set_write_timeout", "write", "read"}

\* a plausible slip: every failure of the probe is turned into the default
probe_capabilities_result_total(outcome, response) ==
    IF outcome = "ok" THEN Ok(Capabilities[response])
    ELSE Ok(default_capabilities)

\* a plausible slip: what was read before the read failed is parsed
probe_capabilities_result_partial(outcome, response) ==
    IF outcome \in {"connect", "set_read_timeout", "set_write_timeout"}
    THEN Err([op |-> "probe", stage |-> outcome])
    ELSE IF outcome = "write" THEN Ok(default_capabilities)
    ELSE Ok(Capabilities[response])

\* a plausible slip: when the read fails, the text already in the buffer is
\* parsed
probe_capabilities_result_read_buffered(outcome, response) ==
    IF outcome \in {"connect", "set_read_timeout", "set_write_timeout"}
    THEN Err([op |-> "probe", stage |-> outcome])
    ELSE IF outcome = "write" \/ (outcome = "read" /\ response = <<>>)
    THEN Ok(default_capabilities)
    ELSE Ok(Capabilities[response])

\* WhoisColorProtocol::probe_capabilities, as a function of how the
\* connection went: `?` on connect and on the two deadlines, the default
\* on a failed write or read, the parsed response otherwise
probe_capabilities_result(outcome, response) ==
    IF outcome \in {"connect", "set_read_timeout", "set_write_timeout"}
    THEN Err([op |-> "probe", stage |-> outcome])
    ELSE IF outcome \in {"write", "read"} THEN Ok(default_capabilities)
    ELSE Ok(Capabilities[response])

\* Result::unwrap_or_default
unwrap_or_default(res) == IF res.ok THEN res.value ELSE default_capabilities

(***************************************************************************)
(* Initial state: a WhoisQuery has been constructed, nothing is called.    *)
(***************************************************************************)
NoFrame ==
    [enhanced |-> FALSE, scheme |-> None, markdown |-> FALSE, images |-> FALSE,
     fb_color |-> FALSE, fb_markdown |-> FALSE, fb_images |-> FALSE,
     fb_scheme |-> None]

Constructed ==
    /\ stdout = <<>>
    /\ domain = <<>>
    /\ use_dn42 = FALSE
    /\ use_bgptools = FALSE
    /\ explicit_server = None
    /\ port = DEFAULT_WHOIS_PORT
    /\ entry = "none"
    /\ use_server_color = FALSE
    /\ enable_markdown = FALSE
    /\ enable_images = FALSE
    /\ preferred_color_scheme = None
    /\ frame = NoFrame
    /\ pc = "idle"
    /\ run = 0
    /\ server = None
    /\ cur = None
    /\ capabilities = None
    /\ log = <<>>
    /\ result = None

\* WhoisQuery::new(false)
Blank == verbose = FALSE /\ Constructed

Init == env_server \in EnvServers /\ Blank

(***************************************************************************)
(* query.rs: the orchestrator                                              *)
(***************************************************************************)
\* a plausible slip: the fallback ignores that a mode or server was forced
fallback_wanted_unforced(qr) ==
    /\ EmptyResult[qr.response]
    /\ Unwrap(server).name # "RADB"

\* a plausible slip: a server named by the environment counts as forced
fallback_wanted_env_forced(qr) ==
    /\ EmptyResult[qr.response]
    /\ ~use_dn42 /\ ~use_bgptools /\ explicit_server = None
    /\ Unwrap(server).name \notin {"RADB", "Custom"}

\* the condition of the RADB fallback, as written in the three entry points
fallback_wanted(qr) ==
    /\ EmptyResult[qr.response]
    /\ ~use_dn42 /\ ~use_bgptools /\ explicit_server = None
    /\ Unwrap(server).name # "RADB"

\* a plausible slip: a server that is not the root authority is always probed
Begin_probe_always(s, enhanced) ==
    /\ server' = Some(s)
    /\ cur' = Some(s)
    /\ run' = 1
    /\ pc' = IF s.name = "IANA" THEN "iana" ELSE "probe"
    /\ UNCHANGED <<env_server, capabilities, log, result>>

\* a plausible slip: with a preference enabled, negotiation starts with the
\* selected server, before the root authority is told apart
Begin_probe_root(s, enhanced) ==
    /\ server' = Some(s)
    /\ cur' = Some(s)
    /\ run' = 1
    /\ pc' = IF enhanced THEN "probe"
             ELSE IF s.name = "IANA" THEN "iana" ELSE "direct"
    /\ UNCHANGED <<env_server, capabilities, log, result>>

\* a plausible slip: only the servers of the two modes are queried directly,
\* a server named by the caller or the environment is asked for a referral
Begin_referral_for_custom(s, enhanced) ==
    /\ server' = Some(s)
    /\ cur' = Some(s)
    /\ run' = 1
    /\ pc' = IF s.name \in {"IANA", "Custom"} THEN "iana"
             ELSE IF enhanced THEN "probe" ELSE "direct"
    /\ UNCHANGED <<env_server, capabilities, log, result>>

\* the first hop of the pipeline for the selected server s: the IANA branch
\* or the direct branch of query_with_referral, or, with the enhanced
\* protocol, of query_with_enhanced_protocol_impl
Begin(s, enhanced) ==
    /\ server' = Some(s)
    /\ cur' = Some(s)
    /\ run' = 1
    /\ pc' = IF s.name = "IANA" THEN "iana"
             ELSE IF enhanced THEN "probe" ELSE "direct"
    /\ UNCHANGED <<env_server, capabilities, log, result>>

\* one line of diagnostic text: the fixed words and the values formatted
\* into them
Line(text, args) == [text |-> text, args |-> args]

\* the lines query_with_referral and query_with_enhanced_protocol_impl print
\* before their first connection to the selected server s
selected_lines(s, enhanced) ==
    IF s.name = "IANA" THEN <<Line("Querying IANA at: {}", <<address(s)>>)>>
    ELSE IF enhanced THEN <<>>
    ELSE <<Line("Using {} server: {}", <<s.name, address(s)>>)>>

\* the line query_direct prints before it connects
connecting_lines(s) == <<Line("Connecting to: {}", <<address(s)>>)>>

\* the line printed once the answer of the root authority has been read
referral_lines(final_server) ==
    IF final_server.host # DEFAULT_WHOIS_SERVER
    THEN <<Line("IANA referred to: {}", <<final_server.host>>)>>
    ELSE <<Line("No referral found, using default: {}",
                <<DEFAULT_WHOIS_SERVER>>)>>

\* the lines of the entry point and of try_radb_fallback when the result qr
\* of the first run makes the entry point fall back
fallback_lines(qr) ==
    IF run = 1 /\ fallback_wanted(qr)
    THEN <<Line("Empty result from RIR servers, trying RADB fallback...", <<>>),
           Line("Querying RADB at: {}", <<address(radb)>>)>>
    ELSE <<>>

\* the lines of probe_capabilities
probe_lines(s, outcome, res) ==
    <<Line("Probing color capabilities for: {}", <<address(s)>>)>>
    \o (IF outcome = "write"
        THEN <<Line("Capability probe write failed, assuming standard WHOIS",
                    <<>>)>>
        ELSE IF outcome = "read"
        THEN <<Line("No capability response, assuming standard WHOIS", <<>>)>>
        ELSE IF outcome = "ok"
        THEN <<Line("Server capabilities: {:?}", <<res.value>>)>>
        ELSE <<>>)

\* the lines of protocol.query_with_enhanced_protocol and of
\* build_enhanced_query, which it calls once the connection is set up
enhanced_lines(caps, preferred_scheme, markdown, images, outcome) ==
    IF outcome \in {"connect", "set_read_timeout", "set_write_timeout"}
    THEN <<>>
    ELSE LET scheme == select_color_scheme(caps, preferred_scheme)
         IN  (IF /\ \/ caps.supports_color
                    \/ caps.supports_markdown
                    \/ caps.supports_images
                 /\ caps.supports_color
                 /\ IsSome(scheme)
              THEN <<Line("Requesting server-side coloring with scheme: {}",
                          <<Unwrap(scheme)>>)>>
              ELSE <<>>)
             \o (IF caps.supports_color
                 THEN <<Line("Sending color-enabled query", <<>>)>> ELSE <<>>)
             \o (IF caps.supports_markdown /\ markdown
                 THEN <<Line("Requesting Markdown format", <<>>)>> ELSE <<>>)
             \o (IF caps.supports_images /\ images
                 THEN <<Line("Requesting image support", <<>>)>> ELSE <<>>)

\* WhoisQuery::query
query ==
    /\ pc = "idle"
    /\ \E dom \in Targets, dn \in BOOLEAN, bgp \in BOOLEAN,
       explicit \in ExplicitServers, p \in Ports :
        /\ domain' = dom /\ use_dn42' = dn /\ use_bgptools' = bgp
        /\ explicit_server' = explicit /\ port' = p
        /\ entry' = "query"
        /\ UNCHANGED <<use_server_color, enable_markdown, enable_images,
                       preferred_color_scheme>>
        /\ frame' = NoFrame
        /\ Begin(select_server(dom, dn, bgp, explicit, p), FALSE)
        /\ stdout' = Said(selected_lines(
                           select_server(dom, dn, bgp, explicit, p), FALSE))
        /\ UNCHANGED verbose

\* WhoisQuery::query_with_enhanced_protocol
query_with_enhanced_protocol ==
    /\ pc = "idle"
    /\ \E dom \in Targets, dn \in BOOLEAN, bgp \in BOOLEAN,
       explicit \in ExplicitServers, p \in Ports,
       color \in BOOLEAN, md \in BOOLEAN, img \in BOOLEAN, scheme \in Schemes :
        /\ domain' = dom /\ use_dn42' = dn /\ use_bgptools' = bgp
        /\ explicit_server' = explicit /\ port' = p
        /\ entry' = "query_with_enhanced_protocol"
        /\ use_server_color' = color /\ enable_markdown' = md
        /\ enable_images' = img /\ preferred_color_scheme' = scheme
        /\ frame' = [enhanced |-> color \/ md \/ img,
                     scheme |-> scheme, markdown |-> md, images |-> img,
                     fb_color |-> color, fb_markdown |-> md, fb_images |-> img,
                     fb_scheme |-> scheme]
        /\ Begin(select_server(dom, dn, bgp, explicit, p), color \/ md \/ img)
        /\ stdout' = Said(selected_lines(
                           select_server(dom, dn, bgp, explicit, p),
                           color \/ md \/ img))
        /\ UNCHANGED verbose

\* a plausible slip: the legacy entry point calls the fallback as the plain
\* entry point does, without the color preference and the scheme
query_with_color_protocol_plain_fallback ==
    /\ pc = "idle"
    /\ \E dom \in Targets, dn \in BOOLEAN, bgp \in BOOLEAN,
       explicit \in ExplicitServers, p \in Ports,
       color \in BOOLEAN, scheme \in Schemes :
        /\ domain' = dom /\ use_dn42' = dn /\ use_bgptools' = bgp
        /\ explicit_server' = explicit /\ port' = p
        /\ entry' = "query_with_color_protocol"
        /\ use_server_color' = color /\ preferred_color_scheme' = scheme
        /\ UNCHANGED <<enable_markdown, enable_images>>
        /\ frame' = [enhanced |-> color,
                     scheme |-> scheme, markdown |-> FALSE, images |-> FALSE,
                     fb_color |-> FALSE, fb_markdown |-> FALSE,
                     fb_images |-> FALSE, fb_scheme |-> None]
        /\ Begin(select_server(dom, dn, bgp, explicit, p), color)
        /\ stdout' = Said(selected_lines(
                           select_server(dom, dn, bgp, explicit, p), color))
        /\ UNCHANGED verbose

\* WhoisQuery::query_with_color_protocol
query_with_color_protocol ==
    /\ pc = "idle"
    /\ \E dom \in Targets, dn \in BOOLEAN, bgp \in BOOLEAN,
       explicit \in ExplicitServers, p \in Ports,
       color \in BOOLEAN, scheme \in Schemes :
        /\ domain' = dom /\ use_dn42' = dn /\ use_bgptools' = bgp
        /\ explicit_server' = explicit /\ port' = p
        /\ entry' = "query_with_color_protocol"
        /\ use_server_color' = color /\ preferred_color_scheme' = scheme
        /\ UNCHANGED <<enable_markdown, enable_images>>
        /\ frame' = [enhanced |-> color,
                     scheme |-> scheme, markdown |-> FALSE, images |-> FALSE,
                     fb_color |-> color, fb_markdown |-> FALSE,
                     fb_images |-> FALSE, fb_scheme |-> scheme]
        /\ Begin(select_server(dom, dn, bgp, explicit, p), color)
        /\ stdout' = Said(selected_lines(
                           select_server(dom, dn, bgp, explicit, p), color))
        /\ UNCHANGED verbose

\* a plausible slip: a failed hop of the first run is retried against RADB
Propagate_retry(op, stage, payload) ==
    /\ log' = Append(log, Conn(op, Unwrap(cur), payload, stage, <<>>,
                               Err(TransportError(op, stage, Unwrap(cur))), run))
    /\ IF run = 1
       THEN /\ run' = 2
            /\ cur' = Some(radb)
            /\ pc' = "direct"
            /\ result' = None
       ELSE /\ result' = Some(Err(TransportError(op, stage, Unwrap(cur))))
            /\ pc' = "done"
            /\ UNCHANGED <<run, cur>>
    /\ capabilities' = None
    /\ UNCHANGED <<inputs, frame, server>>

\* a plausible slip: when the fallback query fails, the empty result of the
\* first run is returned instead of the error
Propagate_swallow(op, stage, payload) ==
    /\ log' = Append(log, Conn(op, Unwrap(cur), payload, stage, <<>>,
                               Err(TransportError(op, stage, Unwrap(cur))), run))
    /\ IF run = 2
       THEN LET i == CHOOSE k \in 1..Len(log) :
                         /\ log[k].run = 1
                         /\ \A j \in 1..Len(log) : log[j].run = 1 => j <= k
            IN  result' = Some(Ok(QueryResult(log[i].response,
                                              custom(log[i].host, log[i].port),
                                              FALSE)))
       ELSE result' = Some(Err(TransportError(op, stage, Unwrap(cur))))
    /\ pc' = "done"
    /\ capabilities' = None
    /\ UNCHANGED <<inputs, frame, run, server, cur>>

\* a failed mandatory hop: `?` returns the error from the entry point
Propagate(op, stage, payload) ==
    /\ log' = Append(log, Conn(op, Unwrap(cur), payload, stage, <<>>,
                               Err(TransportError(op, stage, Unwrap(cur))), run))
    /\ result' = Some(Err(TransportError(op, stage, Unwrap(cur))))
    /\ pc' = "done"
    /\ capabilities' = None
    /\ UNCHANGED <<inputs, frame, run, server, cur>>

\* a plausible slip: the fallback always negotiates with RADB
try_radb_fallback_negotiated ==
    /\ run' = 2
    /\ cur' = Some(radb)
    /\ pc' = "probe"
    /\ result' = None

\* WhoisQuery::try_radb_fallback, up to its first connection
try_radb_fallback ==
    /\ run' = 2
    /\ cur' = Some(radb)
    /\ pc' = IF frame.fb_color \/ frame.fb_markdown \/ frame.fb_images
             THEN "probe" ELSE "direct"
    /\ result' = None

\* a plausible slip: the first result is returned even when it is empty
Finish_no_fallback(qr) ==
    /\ result' = Some(Ok(qr))
    /\ pc' = "done"
    /\ capabilities' = None
    /\ UNCHANGED <<inputs, frame, server, run, cur>>

\* a plausible slip: the fallback is tried again after a fallback run
Finish_refallback(qr) ==
    /\ IF fallback_wanted(qr)
       THEN try_radb_fallback
       ELSE /\ result' = Some(Ok(qr))
            /\ pc' = "done"
            /\ UNCHANGED <<run, cur>>
    /\ capabilities' = None
    /\ UNCHANGED <<inputs, frame, server>>

\* a plausible slip: the fallback is taken inside the block that announces it
Finish_fallback_when_verbose(qr) ==
    /\ IF verbose /\ run = 1 /\ fallback_wanted(qr)
       THEN try_radb_fallback
       ELSE /\ result' = Some(Ok(qr))
            /\ pc' = "done"
            /\ UNCHANGED <<run, cur>>
    /\ capabilities' = None
    /\ UNCHANGED <<inputs, frame, server>>

\* the pipeline run has produced qr: the entry point either returns it or,
\* after the first run, calls try_radb_fallback
Finish(qr) ==
    /\ IF run = 1 /\ fallback_wanted(qr)
       THEN try_radb_fallback
       ELSE /\ result' = Some(Ok(qr))
            /\ pc' = "done"
            /\ UNCHANGED <<run, cur>>
    /\ capabilities' = None
    /\ UNCHANGED <<inputs, frame, server>>

\* a plausible slip: the referred server is contacted on the port argument
resolve_final_server_port_argument(iana_response, initial_server) ==
    LET referred == Referral[iana_response]
        whois_server_host ==
            IF IsSome(referred) THEN Unwrap(referred)
            ELSE DEFAULT_WHOIS_SERVER
    IN  custom(whois_server_host, port)

\* a plausible slip: the result keeps naming the server that was selected
resolve_final_server_initial(iana_response, initial_server) == initial_server

\* the server the root authority refers to: extract_whois_server, else the
\* default regional registry, on the port of the initial server
resolve_final_server(iana_response, initial_server) ==
    LET referred == Referral[iana_response]
        whois_server_host ==
            IF IsSome(referred) THEN Unwrap(referred)
            ELSE DEFAULT_WHOIS_SERVER
    IN  custom(whois_server_host, initial_server.port)

\* the IANA hop of query_with_referral and query_with_enhanced_protocol_impl:
\* query_direct to the root authority, then the referred server is resolved
query_iana ==
    /\ pc = "iana"
    /\ \/ \E stage \in QueryFailures :
              /\ Propagate("query", stage, domain \o CRLF)
              /\ stdout' = Said(connecting_lines(Unwrap(cur)))
       \/ \E iana_response \in IanaResponses :
              /\ log' = Append(log, Conn("query", Unwrap(cur), domain \o CRLF,
                                         "ok", iana_response, Ok(iana_response),
                                         run))
              /\ cur' = Some(resolve_final_server(iana_response, Unwrap(cur)))
              /\ pc' = IF frame.enhanced THEN "probe" ELSE "direct"
              /\ stdout' = Said(connecting_lines(Unwrap(cur))
                                \o referral_lines(resolve_final_server(
                                                      iana_response, Unwrap(cur))))
              /\ UNCHANGED <<inputs, frame, run, server, capabilities, result>>
    /\ UNCHANGED verbose

\* query_direct to the final server and QueryResult::new: the second hop of
\* query_with_referral, its direct branch, and the plain RADB query
query_final ==
    /\ pc = "direct"
    /\ \/ \E stage \in QueryFailures :
              /\ Propagate("query", stage, domain \o CRLF)
              /\ stdout' = Said(connecting_lines(Unwrap(cur)))
       \/ \E response \in Responses :
              /\ log' = Append(log, Conn("query", Unwrap(cur), domain \o CRLF,
                                         "ok", response, Ok(response), run))
              /\ Finish(QueryResult(response, Unwrap(cur), FALSE))
              /\ stdout' = Said(connecting_lines(Unwrap(cur))
                                \o fallback_lines(
                                       QueryResult(response, Unwrap(cur), FALSE)))
    /\ UNCHANGED verbose

\* what the probe connection may have received: the whole answer when the
\* peer closed the stream, nothing or a part of it when the read failed
ProbeReceived(outcome) ==
    IF outcome = "ok" THEN ProbeResponses
    ELSE IF outcome = "read" THEN {<<>>, CAP_V11}
    ELSE {<<>>}

\* the probe of try_enhanced_protocol_query: probe_capabilities on the
\* address of the server, then unwrap_or_default
probe ==
    /\ pc = "probe"
    /\ \E outcome \in ProbeFailures \cup {"ok"} :
       \E response \in ProbeReceived(outcome) :
           LET res == probe_capabilities_result(outcome, response)
           IN  /\ log' = Append(log, Conn("probe", Unwrap(cur),
                                          CAPABILITY_PROBE \o CRLF, outcome,
                                          response, res, run))
               /\ capabilities' = Some(unwrap_or_default(res))
               /\ stdout' = Said(probe_lines(Unwrap(cur), outcome, res))
    /\ pc' = "equery"
    /\ UNCHANGED verbose
    /\ UNCHANGED <<inputs, frame, run, server, cur, result>>

\* a plausible slip: the fallback is called without the preferred scheme, as
\* the plain entry point calls it
RunScheme_fallback_unset == IF run = 2 THEN None ELSE frame.scheme

\* the arguments of the current run: those of the entry point in the first
\* run, those handed to try_radb_fallback in the second
RunScheme == IF run = 2 THEN frame.fb_scheme ELSE frame.scheme

RunMarkdown == IF run = 2 THEN frame.fb_markdown ELSE frame.markdown

RunImages == IF run = 2 THEN frame.fb_images ELSE frame.images

\* the rest of try_enhanced_protocol_query: the query built from the
\* capabilities, and QueryResult::new_with_color
enhanced_query ==
    /\ pc = "equery"
    /\ LET payload == enhanced_query_string(domain, Unwrap(capabilities),
                                            RunScheme, RunMarkdown, RunImages)
       IN  \/ \E stage \in QueryFailures :
                  /\ Propagate("query", stage, payload)
                  /\ stdout' = Said(enhanced_lines(Unwrap(capabilities),
                                                   RunScheme, RunMarkdown,
                                                   RunImages, stage))
           \/ \E response \in Responses :
                  /\ log' = Append(log, Conn("query", Unwrap(cur), payload,
                                             "ok", response, Ok(response), run))
                  /\ Finish(QueryResult(response, Unwrap(cur),
                                        ServerColored[response]))
                  /\ stdout' = Said(
                         enhanced_lines(Unwrap(capabilities), RunScheme,
                                        RunMarkdown, RunImages, "ok")
                         \o fallback_lines(
                                QueryResult(response, Unwrap(cur),
                                            ServerColored[response])))
    /\ UNCHANGED verbose

Next ==
    \/ query
    \/ query_with_enhanced_protocol
    \/ query_with_color_protocol
    \/ query_iana
    \/ query_final
    \/ probe
    \/ enhanced_query

Spec == Init /\ [][Next]_vars

\* every network operation completes or fails by its deadline
FairSpec == Spec /\ WF_vars(Next)

\* WhoisQuery::new(verbose), for either value of the flag
VerboseInit == env_server \in EnvServers /\ verbose \in BOOLEAN /\ Constructed

VerboseSpec == VerboseInit /\ [][Next]_vars

(***************************************************************************)
(* Server selection on its own, over a larger input space                  *)
(***************************************************************************)
SelInit == env_server \in SelEnvServers /\ Blank

\* one call of ServerSelector::select_server
select ==
    /\ pc = "idle"
    /\ \E dom \in SelTargets, dn \in BOOLEAN, bgp \in BOOLEAN,
          explicit \in SelExplicitServers, p \in Ports :
        /\ domain' = dom /\ use_dn42' = dn /\ use_bgptools' = bgp
        /\ explicit_server' = explicit /\ port' = p
        /\ server' = Some(select_server(dom, dn, bgp, explicit, p))
        /\ pc' = "selected"
        /\ Quiet
        /\ UNCHANGED <<env_server, entry, use_server_color, enable_markdown,
                       enable_images, preferred_color_scheme, frame, run, cur,
                       capabilities, log, result>>

SelNext == select

SelSpec == SelInit /\ [][SelNext]_vars

(***************************************************************************)
(* Capability negotiation and the query builder on their own, over a       *)
(* larger input space: what a server may answer to the probe, the          *)
(* capabilities a caller of the library may pass, and the preferences      *)
(***************************************************************************)
SCHEME_RIPE ==
    <<"r", "i", "p", "e">>

SCHEME_BGPTOOLS ==
    <<"b", "g", "p", "t", "o", "o", "l", "s">>

SCHEME_INVALID ==
    <<"i", "n", "v", "a", "l", "i", "d">>

FORMAT_PNG ==
    <<"p", "n", "g">>

FORMAT_JPG ==
    <<"j", "p", "g">>

VERSION_V10 ==
    <<"v", "1", ".", "0">>

VERSION_V11 ==
    <<"v", "1", ".", "1">>

CAP_FULL ==
    <<"X", "-", "W", "H", "O", "I", "S", "-", "C", "O", "L", "O", "R", "-",
      "S", "U", "P", "P", "O", "R", "T", ":", " ", "v", "1", ".", "1", " ",
      "s", "c", "h", "e", "m", "e", "s", "=", "r", "i", "p", "e", ",", "b",
      "g", "p", "t", "o", "o", "l", "s", ",", "m", "t", "f", " ", "m", "a",
      "r", "k", "d", "o", "w", "n", "=", "t", "r", "u", "e", " ", "i", "m",
      "a", "g", "e", "s", "=", "p", "n", "g", ",", "j", "p", "g">>

CAP_MINIMAL ==
    <<"X", "-", "W", "H", "O", "I", "S", "-", "C", "O", "L", "O", "R", "-",
      "S", "U", "P", "P", "O", "R", "T", ":", " ", "v", "1", ".", "0", "\r",
      "\n">>

CAP_BANNER ==
    <<"%", " ", "b", "a", "n", "n", "e", "r", "\r", "\n", " ", " ", "X", "-",
      "W", "H", "O", "I", "S", "-", "C", "O", "L", "O", "R", "-", "S", "U",
      "P", "P", "O", "R", "T", ":", " ", "v", "1", ".", "1", " ", "i", "m",
      "a", "g", "e", "s", "=", "p", "n", "g", " ", "s", "c", "h", "e", "m",
      "e", "s", "=", "m", "t", "f", ",", "r", "i", "p", "e", "\r", "\n", "X",
      "-", "W", "H", "O", "I", "S", "-", "C", "O", "L", "O", "R", "-", "S",
      "U", "P", "P", "O", "R", "T", ":", " ", "v", "1", ".", "0", " ", "s",
      "c", "h", "e", "m", "e", "s", "=", "r", "i", "p", "e", "\r", "\n">>

CAP_V10_EXTRA ==
    <<"X", "-", "W", "H", "O", "I", "S", "-", "C", "O", "L", "O", "R", "-",
      "S", "U", "P", "P", "O", "R", "T", ":", " ", "v", "1", ".", "0", " ",
      "s", "c", "h", "e", "m", "e", "s", "=", "r", "i", "p", "e", " ", "m",
      "a", "r", "k", "d", "o", "w", "n", "=", "t", "r", "u", "e", " ", "i",
      "m", "a", "g", "e", "s", "=", "p", "n", "g", "\r", "\n">>

CAP_UNKNOWN ==
    <<"X", "-", "W", "H", "O", "I", "S", "-", "C", "O", "L", "O", "R", "-",
      "S", "U", "P", "P", "O", "R", "T", ":", " ", "v", "1", ".", "1", " ",
      "f", "o", "o", "=", "b", "a", "r", " ", "s", "c", "h", "e", "m", "e",
      "s", "=", "r", "i", "p", "e", " ", "e", "x", "t", "r", "a", " ", "m",
      "a", "r", "k", "d", "o", "w", "n", "=", "T", "R", "U", "E", "\r", "\n">>

CAP_COMMAS ==
    <<"X", "-", "W", "H", "O", "I", "S", "-", "C", "O", "L", "O", "R", "-",
      "S", "U", "P", "P", "O", "R", "T", ":", " ", "v", "1", ".", "1", " ",
      "s", "c", "h", "e", "m", "e", "s", "=", ",", "r", "i", "p", "e", ",",
      ",", "m", "t", "f", ",", " ", "i", "m", "a", "g", "e", "s", "=", ",",
      "\r", "\n">>

CAP_NO_IMAGES ==
    <<"X", "-", "W", "H", "O", "I", "S", "-", "C", "O", "L", "O", "R", "-",
      "S", "U", "P", "P", "O", "R", "T", ":", " ", "v", "1", ".", "1", " ",
      "s", "c", "h", "e", "m", "e", "s", "=", "m", "t", "f", " ", "m", "a",
      "r", "k", "d", "o", "w", "n", "=", "f", "a", "l", "s", "e", " ", "i",
      "m", "a", "g", "e", "s", "=", "\r", "\n">>

CAP_PREFIX_ONLY ==
    <<"X", "-", "W", "H", "O", "I", "S", "-", "C", "O", "L", "O", "R", "-",
      "S", "U", "P", "P", "O", "R", "T", ":", " ", "\r", "\n">>

CAP_MIDLINE ==
    <<"s", "e", "e", " ", "X", "-", "W", "H", "O", "I", "S", "-", "C", "O",
      "L", "O", "R", "-", "S", "U", "P", "P", "O", "R", "T", ":", " ", "v",
      "1", ".", "1", " ", "s", "c", "h", "e", "m", "e", "s", "=", "r", "i",
      "p", "e", "\n">>

R_OTHER ==
    <<"S", "o", "m", "e", " ", "o", "t", "h", "e", "r", " ", "r", "e", "s",
      "p", "o", "n", "s", "e", "\r", "\n">>


\* what a server may send back to the capability probe
NegResponses ==
    {CAP_V11, CAP_V10, CAP_FULL, CAP_MINIMAL, CAP_BANNER, CAP_V10_EXTRA,
     CAP_UNKNOWN, CAP_COMMAS, CAP_NO_IMAGES, CAP_PREFIX_ONLY, CAP_MIDLINE,
     R_OTHER, R_RECORD, R_EMPTY}

\* ServerCapabilities values built field by field, as a caller of
\* query_with_enhanced_protocol and the unit tests do
TestCapabilities ==
    {default_capabilities,
     ServerCapabilities(TRUE, <<SCHEME_RIPE, SCHEME_BGPTOOLS>>, VERSION_V10,
                        FALSE, FALSE, <<>>),
     ServerCapabilities(TRUE, <<SCHEME_RIPE>>, VERSION_V10, FALSE, FALSE, <<>>),
     ServerCapabilities(TRUE, <<SCHEME_RIPE>>, VERSION_V11, TRUE, TRUE,
                        <<FORMAT_PNG, FORMAT_JPG>>),
     ServerCapabilities(FALSE, <<SCHEME_RIPE>>, VERSION_V11, TRUE, TRUE,
                        <<FORMAT_PNG>>),
     ServerCapabilities(TRUE, <<>>, VERSION_V11, FALSE, TRUE, <<>>)}

NegTargets == {T_DOMAIN, T_DN42_LOWER}

NegSchemes ==
    {None, Some(SCHEME_RIPE), Some(SCHEME_MTF), Some(SCHEME_BGPTOOLS),
     Some(SCHEME_INVALID)}

\* parse_capability_response, applied once to each text of NegResponses
NegCapabilities == [r \in NegResponses |-> parse_capability_response(r)]

\* WhoisColorProtocol::build_color_query
build_color_query(q, caps, preferred_scheme) ==
    LET scheme == select_color_scheme(caps, preferred_scheme)
    IN  IF IsSome(scheme)
        THEN COLOR_REQUEST_PREFIX \o SCHEME_EQ \o Unwrap(scheme) \o CRLF
                 \o q \o CRLF
        ELSE q \o CRLF

\* probe_capabilities has read the whole answer and parses it
parse_capabilities ==
    /\ pc = "idle"
    /\ \E response \in NegResponses :
           /\ log' = <<[kind |-> "probe", response |-> response]>>
           /\ capabilities' = Some(NegCapabilities[response])
    /\ pc' = "negotiated"
    /\ Quiet
    /\ UNCHANGED <<inputs, frame, run, server, cur, result>>

\* a caller passes capabilities it has built itself
construct_capabilities ==
    /\ pc = "idle"
    /\ \E caps \in TestCapabilities : capabilities' = Some(caps)
    /\ pc' = "negotiated"
    /\ Quiet
    /\ UNCHANGED <<inputs, frame, run, server, cur, log, result>>

\* the query text is built from the capabilities and the preferences
build_query ==
    /\ pc = "negotiated"
    /\ \E q \in NegTargets, scheme \in NegSchemes,
          md \in BOOLEAN, img \in BOOLEAN :
           LET caps == Unwrap(capabilities)
           IN  /\ domain' = q
               /\ preferred_color_scheme' = scheme
               /\ enable_markdown' = md
               /\ enable_images' = img
               /\ result' = Some(Ok(
                      [scheme       |-> select_color_scheme(caps, scheme),
                       enhanced     |-> build_enhanced_query(q, caps, scheme,
                                                              md, img),
                       color        |-> build_color_query(q, caps, scheme),
                       query_string |-> enhanced_query_string(q, caps, scheme,
                                                              md, img)]))
    /\ pc' = "built"
    /\ Quiet
    /\ UNCHANGED <<use_dn42, use_bgptools, explicit_server, port, env_server,
                   entry, use_server_color, frame, run, server, cur,
                   capabilities, log>>

\* tokens a later version of the protocol might add to the capability line:
\* none of them starts with schemes=, markdown= or images=
U_CHARSET ==
    <<"c", "h", "a", "r", "s", "e", "t", "=", "u", "t", "f", "-", "8">>

U_UPPER ==
    <<"S", "c", "h", "e", "m", "e", "s", "=", "d", "a", "r", "k">>

U_BARE ==
    <<"m", "a", "r", "k", "d", "o", "w", "n">>

U_NEAR ==
    <<"x", "-", "i", "m", "a", "g", "e", "s", "=", "g", "i", "f">>

U_VALUE ==
    <<"=", "t", "r", "u", "e">>

UnknownTokens == {U_CHARSET, U_UPPER, U_BARE, U_NEAR, U_VALUE}

\* the capability lines tokens are added to
BaseLines == {CAP_V11, CAP_V10, CAP_MINIMAL, CAP_NO_IMAGES}

\* the places of a capability line where a token ends, the version token
\* and every token after it
InsertionPoints(text) ==
    {i \in (Len(CAPABILITY_RESPONSE_PREFIX) + 2)..Len(text) :
        text[i] \in {" ", "\r"}}

\* the line with the token u added after the token that ends before i
InsertToken(text, i, u) ==
    SubSeq(text, 1, i - 1) \o <<" ">> \o u \o SubSeq(text, i, Len(text))

\* the line with one more token
Extensions(text) ==
    {InsertToken(text, i, u) : i \in InsertionPoints(text), u \in UnknownTokens}

\* the line with one or two more tokens
ExtendedLines(text) ==
    Extensions(text) \cup UNION {Extensions(t) : t \in Extensions(text)}

\* probe_capabilities has read a capability line that carries tokens this
\* version does not know, and parses it
parse_extended_capabilities ==
    /\ pc = "idle"
    /\ \E base \in BaseLines :
       \E response \in ExtendedLines(base) :
           /\ log' = <<[kind |-> "probe", response |-> response, base |-> base]>>
           /\ capabilities' = Some(parse_capability_response(response))
    /\ pc' = "extended"
    /\ Quiet
    /\ UNCHANGED <<inputs, frame, run, server, cur, result>>

NegInit == env_server = None /\ Blank

NegNext ==
    \/ parse_capabilities
    \/ construct_capabilities
    \/ build_query
    \/ parse_extended_capabilities

NegSpec == NegInit /\ [][NegNext]_vars

(***************************************************************************)
(* The empty-result classifier on its own, over texts put together from    *)
(* lines of the kinds a registry sends                                     *)
(***************************************************************************)
L_BANNER ==
    <<"%", " ", "T", "h", "i", "s", " ", "i", "s", " ", "t", "h", "e", " ",
      "R", "I", "P", "E", " ", "D", "a", "t", "a", "b", "a", "s", "e", " ",
      "q", "u", "e", "r", "y", " ", "s", "e", "r", "v", "i", "c", "e", ".",
      "\n">>

L_HASH ==
    <<"#", " ", "n", "o", "t", "e", "\r", "\n">>

L_BLANK ==
    <<"\n">>

L_SPACES ==
    <<" ", " ", " ", "\t", "\n">>

L_FIELD ==
    <<"d", "o", "m", "a", "i", "n", ":", " ", "e", "x", "a", "m", "p", "l",
      "e", ".", "c", "o", "m", "\n">>

L_TWO ==
    <<"a", "b", "\n">>

L_PHRASE ==
    <<"N", "o", " ", "E", "n", "t", "r", "i", "e", "s", " ", "F", "o", "u",
      "n", "d", "\n">>

L_INDENTED ==
    <<" ", " ", "%", " ", "i", "n", "d", "e", "n", "t", "e", "d", " ", "c",
      "o", "m", "m", "e", "n", "t", "\n">>

L_ACCENTS ==
    <<"%", " ", E_ACUTE, E_ACUTE, E_ACUTE, E_ACUTE, E_ACUTE, E_ACUTE,
      E_ACUTE, E_ACUTE, E_ACUTE, E_ACUTE, E_ACUTE, E_ACUTE, E_ACUTE, "\n">>

L_TEN ==
    <<"s", "t", "a", "t", "u", "s", ":", " ", "o", "k", "\n">>

L_NINE ==
    <<"x", ":", " ", "1", "2", "3", "4", "5", "6", "\n">>

R_SPACES ==
    <<" ", " ", " ">>

R_NO_OBJECTS ==
    <<"%", " ", "N", "o", " ", "o", "b", "j", "e", "c", "t", "s", " ", "f",
      "o", "u", "n", "d">>

R_NO_ENTRIES ==
    <<"N", "o", " ", "e", "n", "t", "r", "i", "e", "s", " ", "f", "o", "u",
      "n", "d">>

R_RECORD_LONG ==
    <<"i", "n", "e", "t", "n", "u", "m", ":", " ", " ", " ", " ", " ", " ",
      " ", " ", "1", "9", "2", ".", "0", ".", "2", ".", "0", " ", "-", " ",
      "1", "9", "2", ".", "0", ".", "2", ".", "2", "5", "5", "\n", "n", "e",
      "t", "n", "a", "m", "e", ":", " ", " ", " ", " ", " ", " ", " ", " ",
      "E", "X", "A", "M", "P", "L", "E", "-", "N", "E", "T", "\n", "c", "o",
      "u", "n", "t", "r", "y", ":", " ", " ", " ", " ", " ", " ", " ", " ",
      "N", "L", "\n", "s", "o", "u", "r", "c", "e", ":", " ", " ", " ", " ",
      " ", " ", " ", " ", " ", "R", "I", "P", "E", "\n">>


\* the lines a response of the model is put together from
ClassLines ==
    {L_BANNER, L_HASH, L_BLANK, L_SPACES, L_FIELD, L_TWO, L_PHRASE,
     L_INDENTED, L_ACCENTS, L_TEN, L_NINE}

\* the responses the classifier is applied to: up to three lines, and the
\* texts of the unit tests
ClassTexts ==
    {R_EMPTY, R_SPACES, R_NO_OBJECTS, R_NO_ENTRIES, R_RECORD, R_RECORD_LONG,
     R_NOMATCH}
        \cup ClassLines
        \cup {a \o b : a \in ClassLines, b \in ClassLines}
        \cup {a \o b \o c : a \in ClassLines, b \in ClassLines, c \in ClassLines}

\* is_empty_result is applied to a response that has been read
classify ==
    /\ pc = "idle"
    /\ \E response \in ClassTexts :
           /\ log' = <<[kind |-> "query", response |-> response]>>
           /\ result' = Some(Ok(is_empty_result(response)))
    /\ pc' = "classified"
    /\ Quiet
    /\ UNCHANGED <<inputs, frame, run, server, cur, capabilities>>

ClassInit == env_server = None /\ Blank

ClassNext == classify

ClassSpec == ClassInit /\ [][ClassNext]_vars

(***************************************************************************)
(* main.rs: the command-line program. It keeps its own query_whois,        *)
(* query_with_iana_referral and extract_whois_server (the last one line    *)
(* for line that of servers.rs) and reports the outcome on stdout, stderr  *)
(* and the exit status.                                                    *)
(***************************************************************************)
\* a table in the format of bgp.tools
R_BGP_TABLE ==
    <<"A", "S", " ", " ", " ", " ", " ", " ", "|", " ", "C", "C", " ", "|",
      " ", "R", "e", "g", "i", "s", "t", "r", "y", "\n", "1", "5", "1", "6",
      "9", " ", " ", " ", "|", " ", "U", "S", " ", "|", " ", "a", "r", "i",
      "n", "\n">>

\* what a server may send back to the program
MainResponses == Responses \cup {R_SPACES, R_BGP_TABLE}

\* format!("{}:{}", server, port) in query_whois, kept as the pair
Address(host, p) == [host |-> host, port |-> p]

\* the words is_bgp_tools_format looks for in the first line
BGP_AS ==
    <<"A", "S">>

BGP_BAR ==
    <<"|">>

BGP_BGP ==
    <<"B", "G", "P">>

BGP_CC ==
    <<"C", "C">>

BGP_REGISTRY ==
    <<"R", "e", "g", "i", "s", "t", "r", "y">>

\* is_bgp_tools_format
is_bgp_tools_format(output) ==
    LET ls == lines(output)
    IN  IF Len(ls) >= 2
        THEN LET first_line == trim(ls[1])
             IN  /\ contains(first_line, BGP_AS)
                 /\ contains(first_line, BGP_BAR)
                 /\ \/ contains(first_line, BGP_BGP)
                    \/ contains(first_line, BGP_CC)
                    \/ contains(first_line, BGP_REGISTRY)
        ELSE FALSE

\* what the process leaves behind: the text on stdout with the colorizer it
\* went through (the colorizers are named, not applied), the message on
\* stderr, and the exit status
Outcome(out, err, status) ==
    [stdout |-> out, stderr |-> err, status |-> status]

\* `fn main() -> Result<()>` returned Err: the runtime prints the error as
\* "Error: {:?}" and the process ends with status 1
main_returned_err(err) ==
    Outcome(None, Some([label |-> "Error", error |-> err]), 1)

\* the match on result at the end of main
main_match(res) ==
    IF res.ok
    THEN IF trim(res.value) # <<>>
         THEN Outcome(Some([text |-> res.value,
                            colorizer |->
                                IF ~frame.use_color THEN "none"
                                ELSE IF frame.mtf_colors THEN "mtf"
                                ELSE IF is_bgp_tools_format(res.value)
                                THEN "bgptools"
                                ELSE "ripe"]),
                      None, 0)
         ELSE Outcome(None, Some([label |-> "Empty response received"]), 1)
    ELSE Outcome(None, Some([label |-> "Query failed", error |-> res.error]), 1)

\* main, up to its first call of query_whois: the arguments are parsed and
\* the branch is chosen
main ==
    /\ pc = "idle"
    /\ \E dom \in Targets, dn \in BOOLEAN, bgp \in BOOLEAN,
          explicit \in ExplicitServers, p \in Ports,
          no_color \in BOOLEAN, mtf \in BOOLEAN :
        LET env         == IF explicit = None THEN env_server ELSE None
            is_dn42_asn == starts_with(to_uppercase(dom), DN42_PREFIX)
        IN  /\ domain' = dom /\ use_dn42' = dn /\ use_bgptools' = bgp
            /\ explicit_server' = explicit /\ port' = p
            /\ entry' = "main"
            /\ frame' = [use_color |-> ~no_color, mtf_colors |-> mtf]
            /\ IF dn \/ is_dn42_asn
               THEN /\ cur' = Some(Address(DN42_WHOIS_SERVER, DN42_WHOIS_PORT))
                    /\ pc' = "main_direct"
               ELSE IF bgp
               THEN /\ cur' = Some(Address(BGPTOOLS_WHOIS_SERVER,
                                           BGPTOOLS_WHOIS_PORT))
                    /\ pc' = "main_direct"
               ELSE IF IsSome(explicit)
               THEN /\ cur' = Some(Address(Unwrap(explicit), p))
                    /\ pc' = "main_direct"
               ELSE IF IsSome(env)
               THEN /\ cur' = Some(Address(Unwrap(env), p))
                    /\ pc' = "main_direct"
               ELSE /\ cur' = Some(Address(IANA_WHOIS_SERVER, p))
                    /\ pc' = "main_iana"
    /\ Quiet
    /\ UNCHANGED <<env_server, use_server_color, enable_markdown,
                   enable_images, preferred_color_scheme, run, server,
                   capabilities, log, result>>

\* query_whois failed inside query_with_iana_referral: `?` there and `?` on
\* the call in main return the error from main
main_propagate(stage) ==
    LET err == TransportError("query", stage, Unwrap(cur))
    IN  /\ log' = Append(log, Conn("query", Unwrap(cur), domain \o CRLF, stage,
                                   <<>>, Err(err), run))
        /\ result' = Some(main_returned_err(err))
        /\ pc' = "exited"
        /\ Quiet
        /\ UNCHANGED <<inputs, frame, run, server, cur, capabilities>>

\* query_with_iana_referral, its query to IANA and the referral
query_with_iana_referral ==
    /\ pc = "main_iana"
    /\ \/ \E stage \in QueryFailures : main_propagate(stage)
       \/ \E iana_response \in IanaResponses :
              LET referred     == Referral[iana_response]
                  whois_server == IF IsSome(referred) THEN Unwrap(referred)
                                  ELSE DEFAULT_WHOIS_SERVER
              IN  /\ log' = Append(log, Conn("query", Unwrap(cur),
                                             domain \o CRLF, "ok", iana_response,
                                             Ok(iana_response), run))
                  /\ cur' = Some(Address(whois_server, port))
                  /\ pc' = "main_final"
                  /\ Quiet
                  /\ UNCHANGED <<inputs, frame, run, server, capabilities,
                                 result>>

\* query_with_iana_referral, its query to the server referred to, and the
\* end of main
query_whois_referred ==
    /\ pc = "main_final"
    /\ \/ \E stage \in QueryFailures : main_propagate(stage)
       \/ \E response \in MainResponses :
              /\ log' = Append(log, Conn("query", Unwrap(cur), domain \o CRLF,
                                         "ok", response, Ok(response), run))
              /\ result' = Some(main_match(Ok(response)))
              /\ pc' = "exited"
              /\ Quiet
              /\ UNCHANGED <<inputs, frame, run, server, cur, capabilities>>

\* query_whois to the server of a mode, of --server or of WHOIS_SERVER, and
\* the end of main
query_whois ==
    /\ pc = "main_direct"
    /\ \/ \E stage \in QueryFailures :
              LET err == TransportError("query", stage, Unwrap(cur))
              IN  /\ log' = Append(log, Conn("query", Unwrap(cur),
                                             domain \o CRLF, stage, <<>>,
                                             Err(err), run))
                  /\ result' = Some(main_match(Err(err)))
       \/ \E response \in MainResponses :
              /\ log' = Append(log, Conn("query", Unwrap(cur), domain \o CRLF,
                                         "ok", response, Ok(response), run))
              /\ result' = Some(main_match(Ok(response)))
    /\ pc' = "exited"
    /\ Quiet
    /\ UNCHANGED <<inputs, frame, run, server, cur, capabilities>>

MainInit == env_server \in EnvServers /\ Blank

MainNext ==
    \/ main
    \/ query_with_iana_referral
    \/ query_whois_referred
    \/ query_whois

MainSpec == MainInit /\ [][MainNext]_vars

(***************************************************************************)
(* The sockets of an invocation. Every function that talks to a server     *)
(* (query_direct, probe_capabilities and query_with_enhanced_protocol of   *)
(* the protocol) holds its TcpStream in a local: TcpStream::connect makes  *)
(* it, and it is dropped, which closes the socket, when the function       *)
(* returns, by `?` or at its end. Here log also holds the opening and the  *)
(* closing of each socket, before the record of what the function          *)
(* returned.                                                               *)
(***************************************************************************)
\* the last entry of log is of one of the given kinds
LastIs(kinds) == log # <<>> /\ log[Len(log)].kind \in kinds

\* the sockets made so far
Opened == {i \in 1..Len(log) : log[i].kind = "open"}

\* a plausible slip: the query that follows the probe is written to the
\* socket of the probe
TcpStream_connect_after_probe ==
    /\ pc \in {"iana", "direct", "probe", "equery"}
    /\ ~LastIs({"open", "close"})
    /\ log' = Append(log, [kind   |-> "open",
                           host   |-> Unwrap(cur).host,
                           port   |-> Unwrap(cur).port,
                           stream |-> IF pc = "equery" /\ Opened # {}
                                      THEN Cardinality(Opened)
                                      ELSE Cardinality(Opened) + 1])
    /\ Quiet
    /\ UNCHANGED <<inputs, frame, pc, run, server, cur, capabilities, result>>

\* TcpStream::connect returned Ok: a new socket to the server of the hop
TcpStream_connect ==
    /\ pc \in {"iana", "direct", "probe", "equery"}
    /\ ~LastIs({"open", "close"})
    /\ log' = Append(log, [kind   |-> "open",
                           host   |-> Unwrap(cur).host,
                           port   |-> Unwrap(cur).port,
                           stream |-> Cardinality(Opened) + 1])
    /\ Quiet
    /\ UNCHANGED <<inputs, frame, pc, run, server, cur, capabilities, result>>

\* the function that made the socket returns: its local stream is dropped
TcpStream_drop ==
    /\ LastIs({"open"})
    /\ log' = Append(log, [kind |-> "close", stream |-> log[Len(log)].stream])
    /\ Quiet
    /\ UNCHANGED <<inputs, frame, pc, run, server, cur, capabilities, result>>

\* a hop as seen by its caller: either TcpStream::connect failed and no
\* socket was made, or the socket was made, used and dropped
FunctionReturned ==
    /\ ~LastIs({"open"})
    /\ LastIs({"close"}) <=> log'[Len(log')].outcome # "connect"

stream_query_iana == query_iana /\ FunctionReturned

stream_query_final == query_final /\ FunctionReturned

stream_probe == probe /\ FunctionReturned

stream_enhanced_query == enhanced_query /\ FunctionReturned

StreamNext ==
    \/ query
    \/ query_with_enhanced_protocol
    \/ query_with_color_protocol
    \/ TcpStream_connect
    \/ TcpStream_drop
    \/ stream_query_iana
    \/ stream_query_final
    \/ stream_probe
    \/ stream_enhanced_query

StreamSpec == Init /\ [][StreamNext]_vars

(***************************************************************************)
(* Properties                                                              *)
(***************************************************************************)
\* the target starts with AS42424 when letter case is disregarded, said
\* position by position and without any case conversion
IsDn42Target(t) ==
    /\ Len(t) >= 7
    /\ t[1] \in {"A", "a"}
    /\ t[2] \in {"S", "s"}
    /\ SubSeq(t, 3, 7) = <<"4", "2", "4", "2", "4">>

\* C1: select_server returns the highest-priority applicable server. A
\* special mode (a mode flag, or the auto-detected DN42 target) yields the
\* mirror of that mode; otherwise an explicit server yields that host on the
\* given port; otherwise the WHOIS_SERVER override yields that host on the
\* given port; otherwise the root authority is returned.
C1_SelectPriority ==
    IsSome(server) =>
        LET s    == Unwrap(server)
            auto == IsDn42Target(domain)
        IN  /\ (use_dn42 \/ use_bgptools) => s \in {dn42, bgptools}
            /\ s = dn42 <=> (use_dn42 \/ auto)
            /\ s = bgptools => use_bgptools
            /\ (~use_dn42 /\ ~use_bgptools /\ ~auto /\ IsSome(explicit_server))
                   => s = custom(Unwrap(explicit_server), port)
            /\ (~use_dn42 /\ ~use_bgptools /\ ~auto /\ explicit_server = None
                    /\ IsSome(env_server))
                   => s = custom(Unwrap(env_server), port)
            /\ (~use_dn42 /\ ~use_bgptools /\ ~auto /\ explicit_server = None
                    /\ env_server = None)
                   => s = iana

\* C1 witness: a mode flag, an explicit server and the environment override
\* are all present, and the mirror of the flag was selected
C1_Witness ==
    /\ pc = "selected"
    /\ use_bgptools /\ ~use_dn42 /\ ~IsDn42Target(domain)
    /\ explicit_server = Some(HOST_ARIN)
    /\ env_server = Some(HOST_APNIC)
    /\ server = Some(bgptools)

\* C2: a target that starts, case-insensitively, with AS42424 always gets
\* the DN42 mirror, whatever the flags, the explicit server, the port and
\* the environment override are.
C2_Dn42Prefix ==
    (IsSome(server) /\ IsDn42Target(domain)) => server = Some(dn42)

\* C2 witness: a lower-case AS42424 target without the DN42 flag, with the
\* other mode flag, an explicit server and the override set, got the mirror
C2_Witness ==
    /\ pc = "selected"
    /\ domain = T_DN42_LOWER
    /\ ~use_dn42 /\ use_bgptools
    /\ IsSome(explicit_server) /\ IsSome(env_server)
    /\ port = 4343
    /\ server = Some(dn42)

HOST_EXAMPLE ==
    <<"w", "h", "o", "i", "s", ".", "e", "x", "a", "m", "p", "l", "e", ".",
      "n", "e", "t">>

\* the connections of run r that carry the query of that run: not a probe
\* and not the query to the root authority that precedes the referral
FinalQueries(r) ==
    {i \in 1..Len(log) :
        /\ log[i].run = r
        /\ log[i].kind = "query"
        /\ ~(i = 1 /\ IsSome(server) /\ Unwrap(server).name = "IANA")}

\* the first pipeline run ended with a response
FirstRunAnswered == \E i \in FinalQueries(1) : log[i].outcome = "ok"

\* the response the first pipeline run ended with
FirstRunResponse == log[CHOOSE i \in FinalQueries(1) : TRUE].response

Done == pc = "done"

Returned == Done /\ IsSome(result) /\ Unwrap(result).ok

Failed == Done /\ IsSome(result) /\ ~Unwrap(result).ok

\* C3: when the first run ends with a response that is_empty_result
\* classifies as empty and neither a mode flag nor an explicit server was
\* given, the fallback run is issued: it contacts only RADB, carries exactly
\* one query, and what the entry point returns is the outcome of that query
\* with server_used = RADB, whether or not that response is empty too.
C3_FallbackOnce ==
    (/\ FirstRunAnswered
     /\ is_empty_result(FirstRunResponse)
     /\ ~use_dn42 /\ ~use_bgptools /\ explicit_server = None)
    => /\ run = 2
       /\ \A i \in 1..Len(log) :
              log[i].run = 2 => /\ log[i].host = RADB_WHOIS_SERVER
                                /\ log[i].port = RADB_WHOIS_PORT
       /\ Cardinality(FinalQueries(2)) <= 1
       /\ Done => /\ FinalQueries(2) = {Len(log)}
                  /\ Unwrap(result).ok = (log[Len(log)].outcome = "ok")
                  /\ Unwrap(result).ok =>
                         /\ Unwrap(result).value.server_used = radb
                         /\ Unwrap(result).value.response = log[Len(log)].response

\* C3 witness: the registry IANA referred to answered "No match for
\* domain.", RADB answered with an empty response too, and that is returned
C3_Witness ==
    /\ Returned
    /\ server = Some(iana)
    /\ ~use_dn42 /\ ~use_bgptools /\ explicit_server = None
    /\ FirstRunAnswered /\ FirstRunResponse = R_NOMATCH
    /\ run = 2
    /\ Unwrap(result).value.server_used = radb
    /\ is_empty_result(Unwrap(result).value.response)

\* C4: with a mode flag or an explicit server every connection of the
\* invocation goes to the selected server, no fallback run is issued, and
\* the response of the first run is the result, empty or not.
C4_ForcedNoFallback ==
    (pc # "idle" /\ (use_dn42 \/ use_bgptools \/ IsSome(explicit_server)))
    => /\ run = 1
       /\ \A i \in 1..Len(log) :
              /\ log[i].run = 1
              /\ log[i].host = Unwrap(server).host
              /\ log[i].port = Unwrap(server).port
       /\ FirstRunAnswered =>
              /\ Returned
              /\ Unwrap(result).value.response = FirstRunResponse
              /\ Unwrap(result).value.server_used = Unwrap(server)

\* C4 witness: an explicit server answered with an empty response and that
\* response was returned
C4_Witness ==
    /\ Returned
    /\ IsSome(explicit_server) /\ ~use_dn42 /\ ~use_bgptools
    /\ is_empty_result(Unwrap(result).value.response)
    /\ Unwrap(result).value.server_used = custom(HOST_ARIN, port)
    /\ run = 1

\* the queries (probes aside) sent to the host of the fallback registry
RadbQueries ==
    {i \in 1..Len(log) :
        log[i].kind = "query" /\ log[i].host = RADB_WHOIS_SERVER}

\* C5: the fallback registry is never queried twice for the target in one
\* invocation: no fallback run follows an empty response that came from
\* whois.radb.net itself.
C5_RadbQueriedOnce == Cardinality(RadbQueries) <= 1

\* C7: a returned QueryResult never names the root authority: server_used
\* is the server of the last connection, response is exactly what was read
\* from it, and after a referral server_used is the referred host, or the
\* default regional registry when the answer of IANA names none, on the
\* port of the root authority.
C7_ResolvedServer ==
    Returned =>
        LET qr   == Unwrap(result).value
            last == log[Len(log)]
        IN  /\ qr.server_used.name # "IANA"
            /\ last.kind = "query" /\ last.outcome = "ok"
            /\ qr.response = last.response
            /\ qr.server_used.host = last.host
            /\ qr.server_used.port = last.port
            /\ (server = Some(iana) /\ run = 1) =>
                   /\ log[1].host = IANA_WHOIS_SERVER
                   /\ log[1].response = R_WHOIS =>
                          qr.server_used = custom(HOST_EXAMPLE, DEFAULT_WHOIS_PORT)
                   /\ log[1].response = R_REFER_RADB =>
                          qr.server_used = custom(RADB_WHOIS_SERVER, DEFAULT_WHOIS_PORT)
                   /\ log[1].response \in {R_RECORD, R_NOMATCH, R_EMPTY, R_COLORED} =>
                          qr.server_used = custom(DEFAULT_WHOIS_SERVER, DEFAULT_WHOIS_PORT)

\* C7 witness: IANA referred to whois.example.net, which returned a record
C7_Witness ==
    /\ Returned
    /\ server = Some(iana)
    /\ run = 1
    /\ log[1].response = R_WHOIS
    /\ Unwrap(result).value.server_used.host = HOST_EXAMPLE
    /\ Unwrap(result).value.response = R_RECORD

\* C8: a failed capability probe is never fatal: the run goes on with the
\* default capabilities, the next connection is the query to the same
\* server with the bare target line, and an error returned to the caller is
\* never that of the probe.
C8_ProbeFailureNotFatal ==
    /\ \A i \in 1..Len(log) :
           (log[i].kind = "probe" /\ log[i].outcome # "ok") =>
               /\ i = Len(log) => /\ pc = "equery"
                                  /\ capabilities = Some(default_capabilities)
                                  /\ result = None
               /\ i < Len(log) => /\ log[i + 1].kind = "query"
                                  /\ log[i + 1].host = log[i].host
                                  /\ log[i + 1].port = log[i].port
                                  /\ log[i + 1].run = log[i].run
                                  /\ log[i + 1].payload = domain \o CRLF
    /\ Failed => /\ Unwrap(result).error.op = "query"
                 /\ log[Len(log)].kind = "query"

\* C8 witness: the read of the probe failed after a capability line had
\* arrived, color, Markdown and images were asked for, and the query that
\* followed succeeded
C8_Witness ==
    /\ Returned
    /\ use_server_color /\ enable_markdown /\ enable_images
    /\ \E i \in 1..(Len(log) - 1) :
           /\ log[i].kind = "probe"
           /\ log[i].outcome = "read"
           /\ log[i].response = CAP_V11
           /\ log[i + 1].outcome = "ok"

\* C9, as claimed: probe_capabilities returns a ServerCapabilities value
\* for every outcome of the probe connection.
C9_ProbeNeverFails ==
    \A i \in 1..Len(log) : log[i].kind = "probe" => log[i].ret.ok

\* C9, amended: probe_capabilities returns the default capabilities when
\* the write or the read fails and an error when the connection or one of
\* the two deadlines fails; try_enhanced_protocol_query continues with the
\* default capabilities in both cases.
C9_ProbeFailureDefaults ==
    \A i \in 1..Len(log) :
        log[i].kind = "probe" =>
            /\ log[i].outcome \in {"write", "read"} =>
                   log[i].ret = Ok(default_capabilities)
            /\ log[i].outcome \in {"connect", "set_read_timeout",
                                   "set_write_timeout"} => ~log[i].ret.ok
            /\ (log[i].outcome # "ok" /\ i = Len(log)) =>
                   capabilities = Some(default_capabilities)

\* C9 witness: the probe could not connect, probe_capabilities returned an
\* error and the caller holds the default capabilities
C9_Witness ==
    /\ pc = "equery"
    /\ log[Len(log)].kind = "probe"
    /\ log[Len(log)].outcome = "connect"
    /\ ~log[Len(log)].ret.ok
    /\ capabilities = Some(default_capabilities)

\* C10: a transport failure of a query of the first run (the query to the
\* selected server or the re-query of the referred server) ends the
\* invocation: it is the last connection, and the entry point returns the
\* error of that connection and no QueryResult.
C10_MandatoryFailureFatal ==
    \A i \in 1..Len(log) :
        (log[i].run = 1 /\ log[i].kind = "query" /\ log[i].outcome # "ok") =>
            /\ i = Len(log)
            /\ Done
            /\ result = Some(Err([op    |-> "query",
                                  stage |-> log[i].outcome,
                                  host  |-> log[i].host,
                                  port  |-> log[i].port]))

\* C10 witness: IANA referred to whois.example.net and the read of the
\* re-query failed
C10_Witness ==
    /\ Failed
    /\ Len(log) = 2
    /\ log[1].host = IANA_WHOIS_SERVER /\ log[1].response = R_WHOIS
    /\ log[2].host = HOST_EXAMPLE /\ log[2].outcome = "read"
    /\ Unwrap(result).error.stage = "read"

\* C6: every invocation ends, with a result or an error, after at most one
\* fallback run: at most five connections are opened, the fallback run
\* carries at most one query, and no run follows the fallback run.
C6_BoundedTermination ==
    /\ [](/\ Len(log) <= 5
          /\ run \in {0, 1, 2}
          /\ Cardinality(FinalQueries(2)) <= 1
          /\ Done => IsSome(result))
    /\ (pc # "idle") ~> Done

\* C6 witness: the five connections, in order: the root authority, the
\* probe and the query of the referred server, the probe and the query of
\* the fallback registry
C6_Witness ==
    /\ Done
    /\ Len(log) = 5
    /\ [i \in 1..5 |-> log[i].kind] = <<"query", "probe", "query", "probe", "query">>
    /\ log[1].host = IANA_WHOIS_SERVER
    /\ log[2].host = log[3].host
    /\ log[4].host = RADB_WHOIS_SERVER /\ log[5].host = RADB_WHOIS_SERVER
    /\ [i \in 1..5 |-> log[i].run] = <<1, 1, 1, 2, 2>>

\* C11: when the query of the fallback run fails at the transport layer, the
\* invocation ends there: that connection is the last one, and the entry
\* point returns the error of that connection, naming the fallback registry,
\* and not the empty result of the first run.
C11_FallbackFailureReturned ==
    \A i \in 1..Len(log) :
        (log[i].run = 2 /\ log[i].kind = "query" /\ log[i].outcome # "ok") =>
            /\ i = Len(log)
            /\ Done
            /\ result = Some(Err([op    |-> "query",
                                  stage |-> log[i].outcome,
                                  host  |-> RADB_WHOIS_SERVER,
                                  port  |-> RADB_WHOIS_PORT]))

\* C11 witness: the first run ended with "No match for domain.", the
\* fallback run was issued and its query could not connect
C11_Witness ==
    /\ Failed
    /\ run = 2
    /\ FirstRunAnswered /\ FirstRunResponse = R_NOMATCH
    /\ log[Len(log)].host = RADB_WHOIS_SERVER
    /\ log[Len(log)].kind = "query"
    /\ log[Len(log)].outcome = "connect"
    /\ Unwrap(result).error.host = RADB_WHOIS_SERVER

\* the connections of the first pipeline run
FirstRun == {i \in 1..Len(log) : log[i].run = 1}

\* one of the color, Markdown and image preferences is enabled
PreferenceEnabled == use_server_color \/ enable_markdown \/ enable_images

\* C12, as claimed: when select_server returned the DN42 mirror, the pipeline
\* run opens no capability-probe connection and no connection to the root
\* authority, whatever the color, Markdown and image preferences are.
C12_Dn42NoProbe ==
    server = Some(dn42) =>
        \A i \in FirstRun : /\ log[i].kind # "probe"
                            /\ log[i].host # IANA_WHOIS_SERVER

\* C12, amended: when select_server returned the DN42 mirror, every
\* connection of the pipeline run goes to the mirror and none to the root
\* authority; with no preference enabled the run is the single query to the
\* mirror, and with a preference enabled it is one capability probe of the
\* mirror followed by the query.
C12_Dn42ProbeOnlyOnRequest ==
    server = Some(dn42) =>
        /\ \A i \in FirstRun :
               /\ log[i].host = DN42_WHOIS_SERVER
               /\ log[i].port = DN42_WHOIS_PORT
               /\ log[i].host # IANA_WHOIS_SERVER
               /\ log[i].kind = "probe" <=> (PreferenceEnabled /\ i = 1)
               /\ log[i].kind = "query" <=>
                      (i = IF PreferenceEnabled THEN 2 ELSE 1)
        /\ Cardinality(FirstRun) <= IF PreferenceEnabled THEN 2 ELSE 1
        /\ (Done \/ run = 2) =>
               Cardinality(FirstRun) = IF PreferenceEnabled THEN 2 ELSE 1

\* C12 witness: an AS42424 target without the DN42 flag, color asked for:
\* the mirror was probed and then queried
C12_Witness ==
    /\ Returned
    /\ domain = T_DN42_LOWER /\ ~use_dn42
    /\ server = Some(dn42)
    /\ use_server_color
    /\ log[1].kind = "probe" /\ log[1].host = DN42_WHOIS_SERVER
    /\ log[2].kind = "query" /\ log[2].host = DN42_WHOIS_SERVER
    /\ log[2].outcome = "ok"

\* the texts of the extension headers and of two complete queries, written
\* out as the wire carries them
H_COLOR ==
    <<"X", "-", "W", "H", "O", "I", "S", "-", "C", "O", "L", "O", "R", ":",
      " ", "s", "c", "h", "e", "m", "e", "=">>

H_MARKDOWN ==
    <<"X", "-", "W", "H", "O", "I", "S", "-", "M", "A", "R", "K", "D", "O",
      "W", "N", ":", " ", "t", "r", "u", "e">>

H_IMAGES ==
    <<"X", "-", "W", "H", "O", "I", "S", "-", "I", "M", "A", "G", "E", "S",
      ":", " ">>

EXPECTED_V11_FULL ==
    <<"X", "-", "W", "H", "O", "I", "S", "-", "C", "O", "L", "O", "R", ":",
      " ", "s", "c", "h", "e", "m", "e", "=", "r", "i", "p", "e", "\r", "\n",
      "X", "-", "W", "H", "O", "I", "S", "-", "M", "A", "R", "K", "D", "O",
      "W", "N", ":", " ", "t", "r", "u", "e", "\r", "\n", "X", "-", "W", "H",
      "O", "I", "S", "-", "I", "M", "A", "G", "E", "S", ":", " ", "p", "n",
      "g", ",", "j", "p", "g", "\r", "\n", "e", "x", "a", "m", "p", "l", "e",
      ".", "c", "o", "m", "\r", "\n">>

EXPECTED_V10_COMPAT ==
    <<"X", "-", "W", "H", "O", "I", "S", "-", "C", "O", "L", "O", "R", ":",
      " ", "s", "c", "h", "e", "m", "e", "=", "r", "i", "p", "e", "\r", "\n",
      "e", "x", "a", "m", "p", "l", "e", ".", "c", "o", "m", "\r", "\n">>

\* what build_query stored: the outputs of the builder for the inputs of
\* the state
Built == Unwrap(result).value

\* C13: from the default (no-support) capabilities the query that is sent is
\* exactly the target followed by CRLF, with no extension header, for every
\* target, preferred scheme and Markdown and image preference.
C13_DefaultCapabilitiesBareQuery ==
    (pc = "built" /\ capabilities = Some(default_capabilities)) =>
        LET bare == domain \o <<"\r", "\n">>
        IN  /\ Built.query_string = bare
            /\ Built.enhanced = bare
            /\ Built.color = bare
            /\ ~contains(Built.query_string, H_COLOR)
            /\ ~contains(Built.query_string, H_MARKDOWN)
            /\ ~contains(Built.query_string, H_IMAGES)

\* C13 witness: the probe was answered with a text that has no capability
\* line, a scheme, Markdown and images were all asked for, and the query is
\* the bare target line
C13_Witness ==
    /\ pc = "built"
    /\ log # <<>> /\ log[1].response = R_OTHER
    /\ capabilities = Some(default_capabilities)
    /\ domain = T_DOMAIN
    /\ preferred_color_scheme = Some(SCHEME_RIPE)
    /\ enable_markdown /\ enable_images
    /\ Built.query_string = T_DOMAIN \o CRLF

\* the preferred scheme is set and is one of the schemes the server listed
SchemeListed(caps, pref) ==
    /\ IsSome(pref)
    /\ \E i \in DOMAIN caps.color_schemes : caps.color_schemes[i] = Unwrap(pref)

\* the scheme the rules of the protocol ask for
ExpectedScheme(caps, pref) ==
    IF ~caps.supports_color \/ Len(caps.color_schemes) = 0 THEN None
    ELSE IF SchemeListed(caps, pref) THEN pref
    ELSE Some(Head(caps.color_schemes))

\* the entries of a list in order, with a comma between neighbours
RECURSIVE CommaSeparated(_)
CommaSeparated(ss) ==
    IF Len(ss) = 0 THEN <<>>
    ELSE IF Len(ss) = 1 THEN ss[1]
    ELSE CommaSeparated(SubSeq(ss, 1, Len(ss) - 1)) \o <<",">> \o ss[Len(ss)]

\* C14: the built query is the color header, the Markdown header and the
\* images header, in this order and each only when its condition holds
\* (color: supports_color and a scheme can be selected; Markdown:
\* supports_markdown and the preference; images: supports_images, the
\* preference and a non-empty image_formats, whose entries it carries joined
\* by commas), followed by the target line; with no header it is the bare
\* target line.
C14_HeadersInOrder ==
    pc = "built" =>
        LET caps   == Unwrap(capabilities)
            eol    == <<"\r", "\n">>
            scheme == ExpectedScheme(caps, preferred_color_scheme)
            color  == IF IsSome(scheme)
                      THEN H_COLOR \o Unwrap(scheme) \o eol ELSE <<>>
            md     == IF caps.supports_markdown /\ enable_markdown
                      THEN H_MARKDOWN \o eol ELSE <<>>
            img    == IF caps.supports_images /\ enable_images
                         /\ Len(caps.image_formats) > 0
                      THEN H_IMAGES \o CommaSeparated(caps.image_formats) \o eol
                      ELSE <<>>
        IN  /\ Built.enhanced = color \o md \o img \o domain \o eol
            /\ Built.query_string = Built.enhanced
            /\ (/\ caps = ServerCapabilities(TRUE, <<SCHEME_RIPE>>, VERSION_V11,
                                             TRUE, TRUE, <<FORMAT_PNG, FORMAT_JPG>>)
                /\ domain = T_DOMAIN /\ enable_markdown /\ enable_images)
               => Built.enhanced = EXPECTED_V11_FULL
            /\ (/\ caps = ServerCapabilities(TRUE, <<SCHEME_RIPE>>, VERSION_V10,
                                             FALSE, FALSE, <<>>)
                /\ domain = T_DOMAIN)
               => Built.enhanced = EXPECTED_V10_COMPAT

\* C14 witness: full v1.1 capabilities with the scheme ripe and the formats
\* png and jpg, everything asked for: the three headers and the target line
C14_Witness ==
    /\ pc = "built"
    /\ capabilities = Some(ServerCapabilities(TRUE, <<SCHEME_RIPE>>, VERSION_V11,
                                              TRUE, TRUE,
                                              <<FORMAT_PNG, FORMAT_JPG>>))
    /\ preferred_color_scheme = Some(SCHEME_RIPE)
    /\ enable_markdown /\ enable_images
    /\ domain = T_DOMAIN
    /\ Built.query_string = EXPECTED_V11_FULL

\* C15: the preferred scheme is chosen when it is set and listed by the
\* server, otherwise the first listed scheme; with an empty list, or without
\* color support, no scheme is chosen and no color header is written. A
\* chosen scheme is always one of the listed schemes, and it is the one the
\* color header names.
C15_SchemeSelection ==
    pc = "built" =>
        LET caps == Unwrap(capabilities)
        IN  /\ Built.scheme = ExpectedScheme(caps, preferred_color_scheme)
            /\ IsSome(Built.scheme) =>
                   /\ SchemeListed(caps, Built.scheme)
                   /\ starts_with(Built.enhanced,
                                  H_COLOR \o Unwrap(Built.scheme) \o <<"\r", "\n">>)
            /\ Built.scheme = None => ~contains(Built.enhanced, H_COLOR)

\* C15 witness: the server lists ripe and bgptools, the preferred scheme is
\* not listed, and the first listed scheme was chosen
C15_Witness ==
    /\ pc = "built"
    /\ Unwrap(capabilities).color_schemes = <<SCHEME_RIPE, SCHEME_BGPTOOLS>>
    /\ preferred_color_scheme = Some(SCHEME_INVALID)
    /\ Built.scheme = Some(SCHEME_RIPE)

\* the capabilities without any support, field by field
NoSupport ==
    [supports_color    |-> FALSE,
     color_schemes     |-> <<>>,
     protocol_version  |-> <<"n", "o", "n", "e">>,
     supports_markdown |-> FALSE,
     supports_images   |-> FALSE,
     image_formats     |-> <<>>]

\* capabilities with color support, field by field
Supported(version, schemes, markdown, images, formats) ==
    [supports_color    |-> TRUE,
     color_schemes     |-> schemes,
     protocol_version  |-> version,
     supports_markdown |-> markdown,
     supports_images   |-> images,
     image_formats     |-> formats]

\* what each probe response of the model is to be parsed to: the first line
\* that, leading blanks aside, starts with the capability-response prefix
\* and carries a version token decides; schemes= and images= give their
\* entries in order, markdown= counts when its value is the literal true, and
\* image support is the presence of a non-empty images= value
ExpectedCapabilities(text) ==
    CASE text = CAP_V11 ->
             Supported(VERSION_V11, <<SCHEME_RIPE, SCHEME_MTF>>, TRUE, TRUE,
                       <<FORMAT_PNG, FORMAT_JPG>>)
      [] text = CAP_V10 ->
             Supported(VERSION_V10, <<SCHEME_RIPE>>, FALSE, FALSE, <<>>)
      [] text = CAP_FULL ->
             Supported(VERSION_V11, <<SCHEME_RIPE, SCHEME_BGPTOOLS, SCHEME_MTF>>,
                       TRUE, TRUE, <<FORMAT_PNG, FORMAT_JPG>>)
      [] text = CAP_MINIMAL ->
             Supported(VERSION_V10, <<>>, FALSE, FALSE, <<>>)
      [] text = CAP_BANNER ->
             Supported(VERSION_V11, <<SCHEME_MTF, SCHEME_RIPE>>, FALSE, TRUE,
                       <<FORMAT_PNG>>)
      [] text = CAP_V10_EXTRA ->
             Supported(VERSION_V10, <<SCHEME_RIPE>>, TRUE, TRUE, <<FORMAT_PNG>>)
      [] text = CAP_UNKNOWN ->
             Supported(VERSION_V11, <<SCHEME_RIPE>>, FALSE, FALSE, <<>>)
      [] text = CAP_COMMAS ->
             Supported(VERSION_V11, <<SCHEME_RIPE, SCHEME_MTF>>, FALSE, TRUE, <<>>)
      [] text = CAP_NO_IMAGES ->
             Supported(VERSION_V11, <<SCHEME_MTF>>, FALSE, FALSE, <<>>)
      [] text \in {CAP_PREFIX_ONLY, CAP_MIDLINE, R_OTHER, R_RECORD, R_EMPTY} ->
             NoSupport

\* C16: a probe response with a line that starts with the capability-response
\* prefix is parsed to supports_color = true, protocol_version = the first
\* whitespace-delimited token after the prefix, color_schemes = the entries
\* of schemes= in order, supports_markdown = (the value of markdown= is the
\* literal true), and supports_images and image_formats from images=, its
\* entries in order; a response without such a line is parsed to the default
\* capabilities: nothing supported, no entries, version "none".
C16_CapabilityParsing ==
    (pc \in {"negotiated", "built"} /\ log # <<>>) =>
        /\ Unwrap(capabilities) = ExpectedCapabilities(log[1].response)
        /\ Unwrap(capabilities).supports_color
               <=> Unwrap(capabilities) # NoSupport
        /\ default_capabilities = NoSupport

\* C16 witness: the capability line of the specification of the protocol,
\* with three schemes, Markdown and two image formats, has been parsed
C16_Witness ==
    /\ pc = "negotiated"
    /\ log # <<>> /\ log[1].response = CAP_FULL
    /\ Unwrap(capabilities).color_schemes
           = <<SCHEME_RIPE, SCHEME_BGPTOOLS, SCHEME_MTF>>
    /\ Unwrap(capabilities).supports_markdown
    /\ Unwrap(capabilities).image_formats = <<FORMAT_PNG, FORMAT_JPG>>

\* C17: a capability response whose version token is v1.0 never yields
\* Markdown or image support, so the query sent after it carries no
\* Markdown header and no images header, whatever the preferences are.
C17_V10ColorOnly ==
    (/\ pc \in {"negotiated", "built"}
     /\ log # <<>>
     /\ Unwrap(capabilities).protocol_version = <<"v", "1", ".", "0">>)
    => /\ ~Unwrap(capabilities).supports_markdown
       /\ ~Unwrap(capabilities).supports_images
       /\ pc = "built" => /\ ~contains(Built.query_string, H_MARKDOWN)
                          /\ ~contains(Built.query_string, H_IMAGES)

\* the text carries an ANSI escape introducer or the marker
\* X-WHOIS-COLOR-APPLIED:
HasColorMarks(text) ==
    \/ \E i \in 1..(Len(text) - 1) : text[i] = ESC /\ text[i + 1] = "["
    \/ contains(text, <<"X", "-", "W", "H", "O", "I", "S", "-", "C", "O", "L",
                        "O", "R", "-", "A", "P", "P", "L", "I", "E", "D", ":">>)

\* C19: in every QueryResult an entry point returns, from the first run or
\* from the fallback run, server_colored is true exactly when the response
\* carries an ANSI escape introducer or the color-applied marker.
C19_ServerColoredIffMarked ==
    Returned =>
        (Unwrap(result).value.server_colored
             <=> HasColorMarks(Unwrap(result).value.response))

IsBlank(c) == c \in {" ", "\t", "\r", "\n"}

Least(S) == CHOOSE x \in S : \A y \in S : x <= y

Greatest(S) == CHOOSE x \in S : \A y \in S : y <= x

\* the positions of the text that hold a character other than a blank
Ink(text, a, b) == {i \in a..b : ~IsBlank(text[i])}

\* the size of the positions a..b of the text, as str::len counts it: one
\* for a character of ASCII, two for the accented letter
Size(text, a, b) ==
    (b - a + 1)
        + Cardinality({i \in a..b : text[i] \in {E_ACUTE, E_ACUTE_UPPER}})

\* the size of the text without its leading and trailing blanks
TrimmedSize(text) ==
    LET ink == Ink(text, 1, Len(text))
    IN  IF ink = {} THEN 0 ELSE Size(text, Least(ink), Greatest(ink))

\* the same letter, in either case
SameLetter(a, b) ==
    \/ a = b
    \/ \E k \in 1..26 : {a, b} = {LowerAlpha[k], UpperAlpha[k]}
    \/ {a, b} = {E_ACUTE, E_ACUTE_UPPER}

\* one of the no-data phrases occurs in the text, letter case disregarded
HasNoDataPhrase(text) ==
    \E p \in 1..Len(empty_indicators) :
        \E i \in 1..(Len(text) - Len(empty_indicators[p]) + 1) :
            \A k \in 1..Len(empty_indicators[p]) :
                SameLetter(text[i + k - 1], empty_indicators[p][k])

\* where the lines of the text start, and where the line that starts at i
\* ends (before its line feed, or at the end of the text)
LineStarts(text) == {i \in 1..Len(text) : i = 1 \/ text[i - 1] = "\n"}

LineEnd(text, i) ==
    LET feeds == {j \in i..Len(text) : text[j] = "\n"}
    IN  IF feeds = {} THEN Len(text) ELSE Least(feeds) - 1

\* the lines that are neither blank nor a comment: their first character
\* after the leading blanks is neither % nor #
ContentLines(text) ==
    {i \in LineStarts(text) :
        LET ink == Ink(text, i, LineEnd(text, i))
        IN  ink # {} /\ text[Least(ink)] \notin {"%", "#"}}

RECURSIVE SizeOfLines(_, _)
SizeOfLines(text, starts) ==
    IF starts = {} THEN 0
    ELSE LET i   == Least(starts)
             ink == Ink(text, i, LineEnd(text, i))
         IN  Size(text, Least(ink), Greatest(ink))
                 + SizeOfLines(text, starts \ {i})

\* the size of the non-comment content: its lines without their leading and
\* trailing blanks, one separator between neighbours
ContentSize(text) ==
    SizeOfLines(text, ContentLines(text)) + Cardinality(ContentLines(text)) - 1

ClaimedReferral(text) ==
    CASE text = R_WHOIS -> HOST_EXAMPLE
      [] text = R_REFER_RADB ->
             <<"w", "h", "o", "i", "s", ".", "r", "a", "d", "b", ".", "n", "e", "t">>
      [] text \in {R_RECORD, R_NOMATCH, R_EMPTY, R_COLORED} ->
             <<"w", "h", "o", "i", "s", ".", "r", "i", "p", "e", ".", "n", "e", "t">>

C24_WhoisPrecedence ==
    (/\ server = Some(iana) /\ Len(log) >= 2 /\ log[1].outcome = "ok"
     /\ log[1].response \in {R_WHOIS_REFER, R_REFER_WHOIS})
    => log[2].host = HOST_EXAMPLE

\* the target followed by CRLF and nothing else
BareTargetLine == Append(Append(domain, "\r"), "\n")

\* C25: when the root authority is selected, the first connection is a query
\* to it that carries the target line and nothing else, whatever preferences
\* are enabled; no later connection goes to the root authority, and the
\* probes and header-carrying queries of the first run all go to one server,
\* the one the second connection is made to.
C25_RootAuthorityBareQuery ==
    (server = Some(iana) /\ Len(log) >= 1)
    => /\ log[1].kind = "query"
       /\ log[1].host = IANA_WHOIS_SERVER
       /\ log[1].payload = BareTargetLine
       /\ \A i \in 2..Len(log) :
              /\ log[i].host # IANA_WHOIS_SERVER
              /\ log[i].run = 1 => /\ log[i].host = log[2].host
                                   /\ log[i].port = log[2].port

\* C25 witness: colouring was asked for, the root authority got the bare
\* target line, and the server it referred to was probed and then sent a
\* query that starts with the colour header
C25_Witness ==
    /\ server = Some(iana)
    /\ use_server_color
    /\ Len(log) >= 3
    /\ log[1].host = IANA_WHOIS_SERVER /\ log[1].payload = BareTargetLine
    /\ log[1].response = R_WHOIS
    /\ log[2].kind = "probe" /\ log[2].host = HOST_EXAMPLE
    /\ log[3].kind = "query" /\ log[3].host = HOST_EXAMPLE
    /\ log[3].payload # BareTargetLine
    /\ starts_with(log[3].payload, COLOR_REQUEST_PREFIX)

\* C26: a probe whose read ended with a time-out or an error gives the
\* capabilities without any support, whatever had been received by then, and
\* the query that follows it goes to the same server and carries the target
\* line and nothing else.
C26_ProbeReadFailureDefaults ==
    \A i \in 1..Len(log) :
        (log[i].kind = "probe" /\ log[i].outcome = "read")
        => /\ log[i].ret = Ok(NoSupport)
           /\ (i = Len(log) /\ pc = "equery") => capabilities = Some(NoSupport)
           /\ i < Len(log) => /\ log[i + 1].kind = "query"
                              /\ log[i + 1].host = log[i].host
                              /\ log[i + 1].port = log[i].port
                              /\ log[i + 1].payload = BareTargetLine

\* C26 witness: colouring, Markdown and images were asked for, the v1.1
\* capability line had arrived when the read of the probe failed, and the
\* query that followed carried the target line alone
C26_Witness ==
    /\ use_server_color /\ enable_markdown /\ enable_images
    /\ Len(log) >= 2
    /\ log[1].kind = "probe" /\ log[1].outcome = "read"
    /\ log[1].response = CAP_V11
    /\ log[2].kind = "query" /\ log[2].outcome = "ok"
    /\ log[2].payload = BareTargetLine

\* C27: when the plain entry point is called, or none of colouring, Markdown
\* and images is asked for, every connection of the invocation, those of the
\* fallback run included, is a query that carries the target line and
\* nothing else; no probe is made.
C27_NoNegotiationNoProbe ==
    (\/ entry = "query"
     \/ /\ entry \in {"query_with_enhanced_protocol",
                      "query_with_color_protocol"}
        /\ ~use_server_color /\ ~enable_markdown /\ ~enable_images)
    => \A i \in 1..Len(log) :
           /\ log[i].kind = "query"
           /\ log[i].payload = BareTargetLine

\* C27 witness: the enhanced entry point was called with the three
\* preferences off, the registry the root authority referred to had no
\* match, and RADB was then queried with the target line, without a probe
C27_Witness ==
    /\ entry = "query_with_enhanced_protocol"
    /\ ~use_server_color /\ ~enable_markdown /\ ~enable_images
    /\ preferred_color_scheme = Some(SCHEME_MTF)
    /\ Len(log) = 3
    /\ log[2].response = R_NOMATCH
    /\ log[3].run = 2 /\ log[3].kind = "query"
    /\ log[3].host = RADB_WHOIS_SERVER
    /\ log[3].payload = BareTargetLine
    /\ pc = "done"

\* the query the protocol asks for: the color, Markdown and images headers
\* that apply, in this order, and the target line
ExpectedQuery(caps, target, pref, markdown, images) ==
    LET eol    == <<"\r", "\n">>
        scheme == ExpectedScheme(caps, pref)
        color  == IF IsSome(scheme)
                  THEN H_COLOR \o Unwrap(scheme) \o eol ELSE <<>>
        md     == IF caps.supports_markdown /\ markdown
                  THEN H_MARKDOWN \o eol ELSE <<>>
        img    == IF caps.supports_images /\ images
                     /\ Len(caps.image_formats) > 0
                  THEN H_IMAGES \o CommaSeparated(caps.image_formats) \o eol
                  ELSE <<>>
    IN  color \o md \o img \o target \o eol

\* what a probe connection says about the server: the capabilities of the
\* text it received when the peer closed the stream, none otherwise
ProbedCapabilities(c) ==
    IF c.outcome = "ok" THEN ExpectedCapabilities(c.response) ELSE NoSupport

\* C28: every query of the fallback run goes to RADB and carries the target
\* of the invocation unchanged. With one of the preferences enabled it
\* follows a probe of RADB made in the fallback run, and it is the query for
\* the capabilities of that probe, the preferred scheme and the Markdown and
\* image preferences of the invocation; with none enabled it is the target
\* line alone.
C28_FallbackSameRequest ==
    \A i \in 1..Len(log) :
        (log[i].run = 2 /\ log[i].kind = "query")
        => /\ log[i].host = RADB_WHOIS_SERVER
           /\ IF use_server_color \/ enable_markdown \/ enable_images
              THEN /\ i >= 2
                   /\ log[i - 1].run = 2 /\ log[i - 1].kind = "probe"
                   /\ log[i - 1].host = RADB_WHOIS_SERVER
                   /\ log[i].payload =
                          ExpectedQuery(ProbedCapabilities(log[i - 1]), domain,
                                        preferred_color_scheme,
                                        enable_markdown, enable_images)
              ELSE log[i].payload = BareTargetLine

\* C28 witness: the first server announced v1.0 with the scheme ripe and had
\* no match; RADB announced v1.1 with mtf, Markdown and images, and was sent
\* the three headers for the preferences of the invocation and the target
C28_Witness ==
    /\ domain = T_DOMAIN
    /\ preferred_color_scheme = Some(SCHEME_MTF)
    /\ use_server_color /\ enable_markdown /\ enable_images
    /\ Len(log) = 5
    /\ log[2].kind = "probe" /\ log[2].run = 1 /\ log[2].response = CAP_V10
    /\ log[2].outcome = "ok"
    /\ log[3].response = R_NOMATCH
    /\ log[4].kind = "probe" /\ log[4].run = 2 /\ log[4].response = CAP_V11
    /\ log[4].outcome = "ok"
    /\ log[5].run = 2
    /\ log[5].payload =
           H_COLOR \o SCHEME_MTF \o <<"\r", "\n">>
           \o H_MARKDOWN \o <<"\r", "\n">>
           \o H_IMAGES \o <<"p", "n", "g", ",", "j", "p", "g", "\r", "\n">>
           \o T_DOMAIN \o <<"\r", "\n">>

\* the connections of the first pipeline run
FirstRunConnections == {i \in 1..Len(log) : log[i].run = 1}

\* C29: when the selected server is not the root authority, every connection
\* of the first pipeline run goes to the selected server on its port, so no
\* referral is asked for or followed; the run sends one query, no more, and
\* a result returned from this run names the selected server as server_used.
C29_DirectState ==
    (IsSome(server) /\ Unwrap(server).name # "IANA")
    => LET s       == Unwrap(server)
           queries == {i \in FirstRunConnections : log[i].kind = "query"}
       IN  /\ \A i \in FirstRunConnections :
                  log[i].host = s.host /\ log[i].port = s.port
           /\ Cardinality(queries) <= 1
           /\ (pc = "done" \/ run = 2) => Cardinality(queries) = 1
           /\ (pc = "done" /\ run = 1 /\ Unwrap(result).ok)
              => /\ Unwrap(result).value.server_used = s
                 /\ \E i \in queries :
                        Unwrap(result).value.response = log[i].response

\* C29 witness: --server whois.arin.net with --port 4343; the server answered
\* with a whois: line, which was returned as the result and not followed
C29_Witness ==
    /\ explicit_server = Some(HOST_ARIN) /\ port = 4343
    /\ ~use_dn42 /\ ~use_bgptools /\ domain = T_DOMAIN
    /\ pc = "done"
    /\ Len(log) = 1
    /\ log[1].kind = "query" /\ log[1].host = HOST_ARIN /\ log[1].port = 4343
    /\ log[1].response = R_WHOIS
    /\ Unwrap(result).ok
    /\ Unwrap(result).value.server_used.host = HOST_ARIN
    /\ Unwrap(result).value.server_used.port = 4343
    /\ Unwrap(result).value.response = R_WHOIS

\* the v1.1 capability line with x-images=gif after the version token and
\* Schemes=dark at the end
CAP_V11_EXTENDED ==
    <<"X", "-", "W", "H", "O", "I", "S", "-", "C", "O", "L", "O", "R", "-",
      "S", "U", "P", "P", "O", "R", "T", ":", " ", "v", "1", ".", "1", " ",
      "x", "-", "i", "m", "a", "g", "e", "s", "=", "g", "i", "f", " ", "s",
      "c", "h", "e", "m", "e", "s", "=", "r", "i", "p", "e", ",", "m", "t",
      "f", " ", "m", "a", "r", "k", "d", "o", "w", "n", "=", "t", "r", "u",
      "e", " ", "i", "m", "a", "g", "e", "s", "=", "p", "n", "g", ",", "j",
      "p", "g", " ", "S", "c", "h", "e", "m", "e", "s", "=", "d", "a", "r",
      "k", "\r", "\n">>

\* C30: a capability line to which one or two tokens are added that do not
\* start with schemes=, markdown= or images=, each anywhere after the
\* version token, is parsed to the capabilities of the line without them.
C30_UnknownTokensIgnored ==
    pc = "extended"
    => Unwrap(capabilities) = ExpectedCapabilities(log[1].base)

\* C30 witness: the v1.1 line with two added tokens has been parsed to the
\* version, schemes, Markdown support and image formats of the v1.1 line
C30_Witness ==
    /\ pc = "extended"
    /\ log[1].base = CAP_V11
    /\ log[1].response = CAP_V11_EXTENDED
    /\ Unwrap(capabilities) =
           Supported(VERSION_V11, <<SCHEME_RIPE, SCHEME_MTF>>, TRUE, TRUE,
                     <<FORMAT_PNG, FORMAT_JPG>>)

\* every character of the text is white space
AllBlank(text) == \A i \in 1..Len(text) : IsBlank(text[i])

\* C23: the program ends in one of three ways. When the last query was
\* answered with a text that is not blank, the text is printed and the exit
\* status is 0; when a query failed at the transport level, the message on
\* stderr is the "Query failed" one and the status is not 0; when the last
\* query was answered with a blank text, the message is the "Empty response"
\* one and the status is not 0.
C23_ThreeOutcomes ==
    pc = "exited"
    => LET outcome == Unwrap(result)
           last    == log[Len(log)]
       IN  /\ (last.outcome = "ok" /\ ~AllBlank(last.response))
              => /\ outcome.status = 0
                 /\ IsSome(outcome.stdout)
                 /\ Unwrap(outcome.stdout).text = last.response
                 /\ outcome.stderr = None
           /\ last.outcome # "ok"
              => /\ outcome.status # 0
                 /\ outcome.stdout = None
                 /\ IsSome(outcome.stderr)
                 /\ Unwrap(outcome.stderr).label = "Query failed"
           /\ (last.outcome = "ok" /\ AllBlank(last.response))
              => /\ outcome.status # 0
                 /\ outcome.stdout = None
                 /\ IsSome(outcome.stderr)
                 /\ Unwrap(outcome.stderr).label = "Empty response received"

\* the sockets that are open after the first k entries of log
OpenAfter(k) ==
    {log[i].stream : i \in {j \in 1..k : log[j].kind = "open"}}
    \ {log[i].stream : i \in {j \in 1..k : log[j].kind = "close"}}

\* C21: at every point of an invocation at most one socket is open; every
\* probe and every query that got past connecting has a socket of its own,
\* made for it to its server, never one made before, and closed when it
\* returns; so the socket of a probe is closed before the socket of the
\* query that follows it is made.
C21_OneFreshConnectionAtATime ==
    /\ \A k \in 1..Len(log) : Cardinality(OpenAfter(k)) <= 1
    /\ \A i \in 1..Len(log) :
           /\ log[i].kind = "open"
              => /\ \A j \in 1..(i - 1) :
                        log[j].kind = "open" => log[j].stream # log[i].stream
                 /\ OpenAfter(i - 1) = {}
           /\ (log[i].kind \in {"query", "probe"} /\ log[i].outcome # "connect")
              => /\ i >= 3
                 /\ log[i - 2].kind = "open"
                 /\ log[i - 2].host = log[i].host
                 /\ log[i - 2].port = log[i].port
                 /\ log[i - 1].kind = "close"
                 /\ log[i - 1].stream = log[i - 2].stream
           /\ (log[i].kind \in {"query", "probe"} /\ log[i].outcome = "connect")
              => (i = 1 \/ log[i - 1].kind \in {"query", "probe"})

\* C21 witness: a probe and then the query, each on its own socket; the
\* first socket was closed before the second was made
C21_Witness ==
    /\ Len(log) = 6
    /\ log[1].kind = "open" /\ log[1].stream = 1
    /\ log[2].kind = "close" /\ log[2].stream = 1
    /\ log[3].kind = "probe" /\ log[3].outcome = "ok"
    /\ log[4].kind = "open" /\ log[4].stream = 2
    /\ log[4].host = log[1].host /\ log[4].port = log[1].port
    /\ log[5].kind = "close" /\ log[5].stream = 2
    /\ log[6].kind = "query" /\ log[6].outcome = "ok"

\* one of the preferences of the invocation asks for the extension protocol
Negotiating == use_server_color \/ enable_markdown \/ enable_images

\* where an invocation stands before its first connection, told from its
\* inputs alone
ReplayStart ==
    LET s == select_server(domain, use_dn42, use_bgptools, explicit_server,
                           port)
    IN  [stage  |-> IF s.name = "IANA" THEN "iana"
                    ELSE IF Negotiating THEN "probe" ELSE "direct",
         at     |-> s,
         run    |-> 1,
         caps   |-> NoSupport,
         result |-> None]

\* where it stands once the pipeline run has read `response` from `at`
ReplayAnswer(st, response, server_colored) ==
    IF /\ st.run = 1
       /\ EmptyResult[response]
       /\ ~use_dn42 /\ ~use_bgptools /\ explicit_server = None
       /\ ReplayStart.at.name # "RADB"
    THEN [st EXCEPT !.stage = IF Negotiating THEN "probe" ELSE "direct",
                    !.at = radb, !.run = 2]
    ELSE [st EXCEPT !.stage = "done",
                    !.result = Some(Ok(QueryResult(response, st.at,
                                                   server_colored)))]

\* where it stands after the connection c, of which only the behaviour of
\* the peer is read: how the connection ended and what was received
ReplayStep(st, c) ==
    IF st.stage = "probe"
    THEN [st EXCEPT !.stage = "equery", !.caps = ProbedCapabilities(c)]
    ELSE IF c.outcome # "ok"
    THEN [st EXCEPT !.stage = "done",
                    !.result = Some(Err(TransportError("query", c.outcome,
                                                       st.at)))]
    ELSE IF st.stage = "iana"
    THEN [st EXCEPT !.stage = IF Negotiating THEN "probe" ELSE "direct",
                    !.at = custom(IF IsSome(Referral[c.response])
                                  THEN Unwrap(Referral[c.response])
                                  ELSE DEFAULT_WHOIS_SERVER, st.at.port)]
    ELSE IF st.stage = "direct"
    THEN ReplayAnswer(st, c.response, FALSE)
    ELSE ReplayAnswer(st, c.response, ServerColored[c.response])

\* where the invocation stands now
ReplayHere ==
    [stage  |-> pc,
     at     |-> Unwrap(cur),
     run    |-> run,
     caps   |-> IF IsSome(capabilities) THEN Unwrap(capabilities)
                ELSE NoSupport,
     result |-> result]

\* the connection an invocation standing at st opens, and what it writes
ReplayConnection(st) ==
    [kind    |-> IF st.stage = "probe" THEN "probe" ELSE "query",
     host    |-> st.at.host,
     port    |-> st.at.port,
     payload |-> IF st.stage = "probe"
                 THEN CAPABILITY_PROBE \o <<"\r", "\n">>
                 ELSE IF st.stage = "equery"
                 THEN ExpectedQuery(st.caps, domain, preferred_color_scheme,
                                    enable_markdown, enable_images)
                 ELSE domain \o <<"\r", "\n">>,
     run     |-> st.run]

\* C22: the verbose flag never affects control flow. Whatever the flag, an
\* invocation starts where its inputs alone put it, and every step of it
\* opens the connection, writes the bytes and moves on (to the next server,
\* to the fallback run, or to the result or error it returns) as one replay
\* says that reads only the inputs, where the invocation stands and the
\* behaviour of the server (how the connection ended and what was received
\* on it), and never the flag; so two invocations that agree on the inputs
\* and on the behaviour of the servers and differ in the flag open the same
\* connections, send the same bytes and return the same result or error.
C22_VerboseNeverAffectsControlFlow ==
    [][IF pc = "idle"
       THEN /\ log' = <<>>
            /\ pc' = ReplayStart'.stage
            /\ cur' = Some(ReplayStart'.at)
            /\ run' = 1
       ELSE LET c    == log'[Len(log')]
                sent == ReplayConnection(ReplayHere)
                next == ReplayStep(ReplayHere, c)
            IN  /\ Len(log') = Len(log) + 1
                /\ c.kind = sent.kind
                /\ c.host = sent.host
                /\ c.port = sent.port
                /\ c.payload = sent.payload
                /\ c.run = sent.run
                /\ pc' = next.stage
                /\ cur' = Some(next.at)
                /\ run' = next.run
                /\ next.stage = "equery" => capabilities' = Some(next.caps)
                /\ next.stage = "done" => result' = next.result
      ]_vars

\* C22 witness: a verbose invocation that printed its diagnostics, among them
\* the announcement of the fallback, negotiated in both runs and returned
C22_Witness ==
    /\ verbose
    /\ pc = "done"
    /\ Negotiating
    /\ Len(log) = 5
    /\ log[5].run = 2 /\ log[5].outcome = "ok"
    /\ IsSome(result) /\ Unwrap(result).ok
    /\ \E i \in DOMAIN stdout :
           stdout[i].text =
               "Empty result from RIR servers, trying RADB fallback..."
    /\ \E i \in DOMAIN stdout :
           stdout[i].text = "Requesting server-side coloring with scheme: {}"

\* the number of characters of the text without its leading and trailing
\* blanks
TrimmedLength(text) ==
    LET ink == Ink(text, 1, Len(text))
    IN  IF ink = {} THEN 0 ELSE Greatest(ink) - Least(ink) + 1

RECURSIVE LengthOfLines(_, _)
LengthOfLines(text, starts) ==
    IF starts = {} THEN 0
    ELSE LET i   == Least(starts)
             ink == Ink(text, i, LineEnd(text, i))
         IN  (Greatest(ink) - Least(ink) + 1)
                 + LengthOfLines(text, starts \ {i})

\* the number of characters of the non-comment content: its lines without
\* their leading and trailing blanks, one separator between neighbours
ContentLength(text) ==
    LengthOfLines(text, ContentLines(text))
        + Cardinality(ContentLines(text)) - 1

\* C31: the short-response heuristic. A response without any no-data phrase
\* and with at least one non-comment line is classified empty only if its
\* trimmed text has fewer than 30 characters and its non-comment content
\* fewer than 10; and such a response of fewer than 30 characters whose
\* non-comment content has 10 characters or more is not empty.
C31_ShortResponseHeuristic ==
    pc = "classified" =>
        LET text  == log[1].response
            empty == Unwrap(result).value
        IN  (~HasNoDataPhrase(text) /\ ContentLines(text) # {})
            => /\ empty => /\ TrimmedLength(text) < 30
                           /\ ContentLength(text) < 10
               /\ (TrimmedLength(text) < 30 /\ ContentLength(text) >= 10)
                  => ~empty

\* C31 witness: "domain: example.com", 19 characters of content and no
\* phrase: short, but with enough content, and classified as a result
C31_Witness ==
    /\ pc = "classified"
    /\ log[1].response = L_FIELD
    /\ TrimmedLength(log[1].response) = 19
    /\ ContentLength(log[1].response) = 19
    /\ Unwrap(result).value = FALSE

\* C32: whenever select_server returned the DN42 mirror, by the DN42 flag or
\* by the AS42424 prefix of the target without the flag, the fallback
\* registry is never contacted and the server_used of the result is the
\* mirror, even when the answer of the mirror is classified empty.
C32_Dn42NeverFallsBack ==
    server = Some(dn42) =>
        /\ run # 2
        /\ \A i \in 1..Len(log) : log[i].host # RADB_WHOIS_SERVER
        /\ Returned => Unwrap(result).value.server_used = dn42

\* the selected server is the one the environment names: no mode flag, no
\* AS42424 target, no explicit server
EnvOverrideSelected ==
    /\ pc # "idle"
    /\ ~use_dn42 /\ ~use_bgptools /\ explicit_server = None
    /\ IsSome(env_server)
    /\ server = Some([host |-> Unwrap(env_server), port |-> port,
                      name |-> "Custom"])

\* the connections of the fallback run
FallbackRun == {i \in 1..Len(log) : log[i].run = 2}

\* C33: the server of the WHOIS_SERVER override is not a forced server. When
\* it is the selected server and its answer is classified empty, the one
\* fallback run is issued: every connection after that answer goes to RADB,
\* with at most one query, and an invocation that ended made one; whereas
\* with an explicit server, the same host included, no fallback run is ever
\* issued and RADB is not contacted.
C33_EnvOverrideNotForced ==
    /\ (EnvOverrideSelected /\ FirstRunAnswered
            /\ EmptyResult[FirstRunResponse])
       => /\ run = 2
          /\ \A i \in FallbackRun : /\ log[i].host = RADB_WHOIS_SERVER
                                    /\ log[i].port = RADB_WHOIS_PORT
          /\ Cardinality({i \in FallbackRun : log[i].kind = "query"}) <= 1
          /\ Done => FallbackRun # {}
    /\ (pc # "idle" /\ IsSome(explicit_server))
       => /\ run = 1
          /\ FallbackRun = {}
          /\ \A i \in 1..Len(log) : log[i].host # RADB_WHOIS_SERVER

\* C33 witness: WHOIS_SERVER=whois.arin.net, which answered "No match for
\* domain."; RADB was queried next and its answer returned
C33_Witness ==
    /\ EnvOverrideSelected
    /\ env_server = Some(HOST_ARIN)
    /\ Returned
    /\ Len(log) = 2
    /\ log[1].host = HOST_ARIN /\ log[1].response = R_NOMATCH
    /\ log[2].host = RADB_WHOIS_SERVER /\ log[2].run = 2
    /\ Unwrap(result).value.server_used = radb

\* neither a mode flag, nor an AS42424 target, nor an explicit server, nor
\* the environment override decides the server
DefaultPath ==
    /\ pc # "idle"
    /\ ~use_dn42 /\ ~use_bgptools /\ ~IsDn42Target(domain)
    /\ explicit_server = None /\ env_server = None

\* C34: on the default path the port argument has no effect. The root
\* authority is contacted first, on port 43; the server it refers to, or
\* the default regional registry, and the fallback registry are contacted
\* on port 43 too; and the server of the result, or the address of the
\* error, carries port 43, whatever the port argument is.
C34_PortArgumentUnused ==
    DefaultPath =>
        /\ \A i \in 1..Len(log) : log[i].port = 43
        /\ Len(log) >= 1 => log[1].host = IANA_WHOIS_SERVER
        /\ Returned => Unwrap(result).value.server_used.port = 43
        /\ Failed => Unwrap(result).error.port = 43

\* C34 witness: called with port 4343; the root authority, the registry it
\* referred to and then the fallback registry were contacted, each on 43
C34_Witness ==
    /\ DefaultPath
    /\ port = 4343
    /\ Returned
    /\ Len(log) = 3
    /\ log[1].host = IANA_WHOIS_SERVER /\ log[1].response = R_WHOIS
    /\ log[2].host = HOST_EXAMPLE /\ log[2].port = 43
    /\ log[3].host = RADB_WHOIS_SERVER /\ log[3].port = 43

\* where the lines start that begin, after their leading blanks, with
\* whois: or refer:
FieldLines(text) ==
    {i \in LineStarts(text) :
        LET ink == Ink(text, i, LineEnd(text, i))
        IN  /\ ink # {}
            /\ Least(ink) + 5 <= LineEnd(text, i)
            /\ SubSeq(text, Least(ink), Least(ink) + 5)
                   \in {<<"w", "h", "o", "i", "s", ":">>,
                        <<"r", "e", "f", "e", "r", ":">>}}

\* the positions of the second blank-delimited token of the line that
\* starts at i: the ink after the first blank that follows the field, up to
\* the next blank
SecondToken(text, i) ==
    LET e      == LineEnd(text, i)
        a      == Least(Ink(text, i, e))
        blanks == {j \in a..e : IsBlank(text[j])}
        after  == IF blanks = {} THEN {}
                  ELSE Ink(text, Least(blanks), e)
    IN  IF after = {} THEN {}
        ELSE {k \in after :
                 \A j \in Least(after)..k : ~IsBlank(text[j])}

\* C35: the first line of the answer of the root authority that starts with
\* whois: or refer: decides alone. When it has a second token, the next
\* connection goes to the host that token names; when it has none, the
\* answer counts as without referral and the next connection goes to the
\* default regional registry whois.ripe.net, even when a later line carries
\* a referral with a value.
C35_FirstFieldLineDecides ==
    (/\ pc # "idle" /\ server = Some(iana)
     /\ Len(log) >= 2 /\ log[1].outcome = "ok"
     /\ FieldLines(log[1].response) # {})
    => LET text  == log[1].response
           token == SecondToken(text, Least(FieldLines(text)))
       IN  /\ log[2].port = 43
           /\ log[2].host =
                  IF token = {}
                  THEN <<"w", "h", "o", "i", "s", ".", "r", "i", "p", "e",
                         ".", "n", "e", "t">>
                  ELSE SubSeq(text, Least(token), Greatest(token))

\* C35 witness: the root authority answered "whois:" without a value and
\* then "refer: whois.radb.net"; whois.ripe.net was queried and answered
C35_Witness ==
    /\ Returned
    /\ server = Some(iana)
    /\ Len(log) = 2
    /\ log[1].response = R_WHOIS_BLANK
    /\ Cardinality(FieldLines(log[1].response)) = 2
    /\ log[2].host = DEFAULT_WHOIS_SERVER
    /\ log[2].response = R_RECORD
    /\ Unwrap(result).value.server_used.host = DEFAULT_WHOIS_SERVER

\* the text carries an images header without any format
EmptyImagesHeader(text) ==
    \E i \in 1..Len(text) :
        /\ i + Len(H_IMAGES) <= Len(text)
        /\ SubSeq(text, i, i + Len(H_IMAGES) - 1) = H_IMAGES
        /\ text[i + Len(H_IMAGES)] \in {"\r", "\n"}

\* C36: in every ServerCapabilities value the negotiator produced from a
\* probe response, supports_images is true if and only if image_formats is
\* not empty; and a query built from such a value never carries an images
\* header with an empty format list.
C36_ImagesIffFormats ==
    (IsSome(capabilities) /\ Len(log) = 1 /\ log[1].kind = "probe")
    => /\ Unwrap(capabilities).supports_images
              <=> Len(Unwrap(capabilities).image_formats) > 0
       /\ pc = "built" => ~EmptyImagesHeader(Unwrap(result).value.enhanced)

\* C37: the three entry points agree. query_with_color_protocol takes every
\* step as query_with_enhanced_protocol does with enable_markdown and
\* enable_images false, and query as it does with the three enhancement
\* flags false: whichever entry point was called, the invocation starts
\* where the arguments put it and each step opens the connection, writes
\* the bytes and moves on, up to the result or error, as the replay of
\* query_with_enhanced_protocol says for the flags the entry point stands
\* for; with the three flags false no step negotiates and every query is
\* the bare target line, so the preferred scheme makes no difference.
C37_EntryPointsAgree ==
    [][/\ entry' = "query" =>
              ~use_server_color' /\ ~enable_markdown' /\ ~enable_images'
       /\ entry' = "query_with_color_protocol" =>
              ~enable_markdown' /\ ~enable_images'
       /\ entry' \in {"query", "query_with_color_protocol",
                      "query_with_enhanced_protocol"}
       /\ IF pc = "idle"
          THEN /\ log' = <<>>
               /\ pc' = ReplayStart'.stage
               /\ cur' = Some(ReplayStart'.at)
               /\ run' = ReplayStart'.run
          ELSE LET c      == log'[Len(log')]
                   before == ReplayHere
                   after  == ReplayStep(before, c)
               IN  /\ entry' = entry
                   /\ Len(log') = Len(log) + 1
                   /\ [kind |-> c.kind, host |-> c.host, port |-> c.port,
                       payload |-> c.payload, run |-> c.run]
                          = ReplayConnection(before)
                   /\ ~Negotiating =>
                          /\ c.kind = "query"
                          /\ c.payload = domain \o <<"\r", "\n">>
                   /\ pc' = after.stage
                   /\ cur' = Some(after.at)
                   /\ run' = after.run
                   /\ after.stage = "equery" =>
                          capabilities' = Some(after.caps)
                   /\ after.stage = "done" => result' = after.result
      ]_vars

\* C37 witness: the legacy entry point, colouring asked for: the first
\* server was probed and had no match, RADB was probed, announced v1.1 and
\* was sent the color header; its answer was returned
C37_Witness ==
    /\ entry = "query_with_color_protocol"
    /\ use_server_color /\ ~enable_markdown /\ ~enable_images
    /\ preferred_color_scheme = Some(SCHEME_MTF)
    /\ Returned
    /\ run = 2
    /\ Len(log) = 4
    /\ log[1].kind = "probe" /\ log[2].response = R_NOMATCH
    /\ log[3].kind = "probe" /\ log[3].host = RADB_WHOIS_SERVER
    /\ log[3].response = CAP_V11
    /\ log[4].payload = H_COLOR \o SCHEME_MTF \o <<"\r", "\n">>
                            \o domain \o <<"\r", "\n">>

====
